---- MODULE Spec2Model ----
(***************************************************************************)
(* A model of libgomp's host-side target memory manager                    *)
(* (src/libgomp/target.c): the per-device interval index of mapping        *)
(* records, the target memory descriptors that own them, and the map /     *)
(* unmap / update / enter-data / exit-data engines that keep the           *)
(* reference counts.                                                       *)
(*                                                                         *)
(* One device is modelled.  Every entry point holds the device lock from   *)
(* its gomp_mutex_lock to its gomp_mutex_unlock, so each is one atomic     *)
(* action; the value of the lock at the moment of a gomp_fatal is kept in  *)
(* the state (a fatal state is terminal).  The specifications of threads   *)
(* split the entry points at their lock and unlock calls.                  *)
(***************************************************************************)
EXTENDS Integers, Sequences, FiniteSets, TLC

VARIABLES
  tgts,      \* live target_mem_desc objects: id -> descriptor
  mem_map,   \* devicep->mem_map: the records in the index, as <<tgt id, array index>>
  lock,      \* devicep->lock is held
  is_initialized,  \* devicep->is_initialized
  register_lock,   \* register_lock is held
  offload_images,  \* the images registered so far
  status,    \* "running"; "fatal" once gomp_fatal is called; "abort" once an assert
             \* fails; "undefined" once freed or unset memory is dereferenced
  blocks,    \* device blocks handed out by alloc_func and not yet given to free_func
  log,       \* plugin calls and index updates made by the last entry point
  held,      \* descriptors returned by gomp_map_vars that their caller still holds
  call,      \* the last entry point called, its arguments and its result
  unlocked,  \* the index or a reference count was written without the device lock
  pc,        \* where each thread is in the entry point it has called
  lock_owner,      \* the thread that holds devicep->lock, 0 if none does
  register_owner,  \* the thread that holds register_lock, 0 if none does
  target_data,     \* icv->target_data: the descriptors of the open target data
                   \* regions of the task, linked by prev, the last one first
  regions          \* the target data regions the task has entered and not yet
                   \* left, the innermost first: the descriptor each one pushed

vars == <<tgts, mem_map, lock, is_initialized, register_lock, offload_images,
          status, blocks, log, held, call, unlocked, pc, lock_owner, register_owner,
          target_data, regions>>

----------------------------------------------------------------------------
(* Machine words, map kinds                                                *)

\* uintptr_t / size_t arithmetic is modular; the model's word is 16 bits wide.
UWORD == 2^16

Wrap(x) == ((x % UWORD) + UWORD) % UWORD

\* ~(uintptr_t) n
Not(n) == UWORD - 1 - n

REFCOUNT_INFINITY == Not(0)

PTR_SIZE == 8

NULLKEY == <<0, 0>>

\* enum gomp_map_kind (gomp-constants.h)
GOMP_MAP(name) ==
  CASE name = "ALLOC" -> 0
    [] name = "TO" -> 1
    [] name = "FROM" -> 2
    [] name = "TOFROM" -> 3
    [] name = "POINTER" -> 4
    [] name = "TO_PSET" -> 5
    [] name = "FORCE_PRESENT" -> 6
    [] name = "DELETE" -> 7
    [] name = "FORCE_DEVICEPTR" -> 8
    [] name = "FIRSTPRIVATE" -> 12
    [] name = "FIRSTPRIVATE_INT" -> 13
    [] name = "USE_DEVICE_PTR" -> 14
    [] name = "ZERO_LEN_ARRAY_SECTION" -> 15
    [] name = "ALWAYS_TO" -> 17
    [] name = "ALWAYS_FROM" -> 18
    [] name = "ALWAYS_TOFROM" -> 19
    [] name = "RELEASE" -> 23
    [] name = "STRUCT" -> 28
    [] name = "DELETE_ZERO_LEN_ARRAY_SECTION" -> 31
    [] name = "FORCE_ALLOC" -> 128
    [] name = "FORCE_TO" -> 129
    [] name = "FORCE_FROM" -> 130
    [] name = "FORCE_TOFROM" -> 131

\* kind & GOMP_MAP_FLAG_FORCE
GOMP_MAP_FLAG_FORCE(kind) == (kind \div 128) % 2 = 1

\* !(X & GOMP_MAP_FLAG_SPECIAL) && (X & GOMP_MAP_FLAG_TO)
GOMP_MAP_COPY_TO_P(X) == (X \div 4) % 4 = 0 /\ X % 2 = 1

\* !(X & GOMP_MAP_FLAG_SPECIAL) && (X & GOMP_MAP_FLAG_FROM)
GOMP_MAP_COPY_FROM_P(X) == (X \div 4) % 4 = 0 /\ (X \div 2) % 2 = 1

GOMP_MAP_POINTER_P(X) == X = GOMP_MAP("POINTER")

GOMP_MAP_ALWAYS_TO_P(X) == X \in {GOMP_MAP("ALWAYS_TO"), GOMP_MAP("ALWAYS_TOFROM")}

GOMP_MAP_ALWAYS_FROM_P(X) == X \in {GOMP_MAP("ALWAYS_FROM"), GOMP_MAP("ALWAYS_TOFROM")}

\* kind & typemask and kind >> rshift, for the 8-bit and the 16-bit encoding
KindType(kind, short_mapkind) == IF short_mapkind THEN kind % 256 ELSE kind % 8

KindAlign(kind, short_mapkind) ==
  2 ^ (IF short_mapkind THEN kind \div 256 ELSE kind \div 8)

\* size & ~(align - 1): the rounding that goes down
AlignUp_floor(size, align) == Wrap(size - (size % align))

\* (size + align - 1) & ~(align - 1), align a power of two
AlignUp(size, align) == Wrap(Wrap(size + align - 1) - (Wrap(size + align - 1) % align))

----------------------------------------------------------------------------
(* The machine state the engines work on, and the plugin calls             *)

Ev(ev, a, b, n) == [ev |-> ev, a |-> a, b |-> b, n |-> n]

Log(m, e) == [m EXCEPT !.log = Append(@, e)]

Key(m, k) == m.tgts[k[1]].array[k[2]]

\* A slot's key points into a descriptor's array that has been freed.
Dangling(m, k) == k[1] \notin DOMAIN m.tgts

Stopped(m) == m.status /= "running"

gomp_mutex_lock(m) == [m EXCEPT !.lock = TRUE]

gomp_mutex_unlock(m) == [m EXCEPT !.lock = FALSE]

gomp_fatal(m) == [m EXCEPT !.status = "fatal"]

\* a failed assert: abort () without any unlock
abort(m) == [m EXCEPT !.status = "abort"]

UndefinedBehaviour(m) == [m EXCEPT !.status = "undefined"]

\* The write that takes m to m2 changes the index or a reference count: it is
\* noted if the thread that makes it does not hold the device lock.
UnderLock(m, m2) == IF m.lock THEN m2 ELSE [m2 EXCEPT !.unlocked = TRUE]

Free(m, t) == [m EXCEPT !.tgts = [x \in (DOMAIN m.tgts) \ {t} |-> m.tgts[x]]]

dev2host_func(m, host, dev, n) == Log(m, Ev("dev2host", host, dev, n))

host2dev_func(m, dev, host, n) == Log(m, Ev("host2dev", dev, host, n))

\* host2dev_func of one pointer-sized value computed by the engine
WritePtr(m, dev, value) == Log(m, Ev("host2dev_ptr", dev, value, PTR_SIZE))

free_func(m, ptr) == [Log(m, Ev("free", ptr, 0, 0)) EXCEPT !.blocks = @ \ {ptr}]

\* The address alloc_func returns for descriptor t: a fresh block, not aligned.
DevStride == 2048

DevAddr(t) == t * DevStride + 1

alloc_func(m, t, size) ==
  [Log(m, Ev("alloc", DevAddr(t), 0, size)) EXCEPT !.blocks = @ \cup {DevAddr(t)}]

----------------------------------------------------------------------------
(* The interval index                                                      *)

\* splay_compare taking a key for equal to a record only if the record holds it
splay_compare_within(x, y) ==
  IF x.host_start = x.host_end /\ y.host_start = y.host_end THEN 0
  ELSE IF y.host_start <= x.host_start /\ x.host_end <= y.host_end THEN 0
  ELSE IF x.host_start < y.host_start THEN -1
  ELSE 1

splay_compare(x, y) ==
  IF x.host_start = x.host_end /\ y.host_start = y.host_end THEN 0
  ELSE IF x.host_end <= y.host_start THEN -1
  ELSE IF x.host_start >= y.host_end THEN 1
  ELSE 0

Node(hs, he) == [host_start |-> hs, host_end |-> he]

\* splay_tree_lookup that finds no record
splay_tree_lookup_misses(m, key) == {NULLKEY}

\* splay_tree_lookup: the records that compare equal to the key; the tree
\* returns one of them (which one depends on its shape), or NULL if none does.
splay_tree_lookup(m, key) ==
  LET hit == {k \in m.mem_map : splay_compare(key, Key(m, k)) = 0}
  IN IF hit = {} THEN {NULLKEY} ELSE hit

splay_tree_insert(m, k) ==
  UnderLock(m, [Log(m, Ev("insert", Key(m, k).host_start, Key(m, k).host_end, 0))
                  EXCEPT !.mem_map = @ \cup {k}])

\* splay_tree_remove that leaves the record in the index
splay_tree_remove_keeps(m, k) ==
  UnderLock(m, Log(m, Ev("remove", Key(m, k).host_start, Key(m, k).host_end, 0)))

splay_tree_remove(m, k) ==
  UnderLock(m, [Log(m, Ev("remove", Key(m, k).host_start, Key(m, k).host_end, 0))
                  EXCEPT !.mem_map = @ \ {k}])

\* gomp_map_lookup: for a degenerate key, probe [a, a+1), then [a-1, a), then [a, a).
gomp_map_lookup(m, key) ==
  IF key.host_start /= key.host_end THEN splay_tree_lookup(m, key)
  ELSE LET n1 == splay_tree_lookup(m, Node(key.host_start, Wrap(key.host_end + 1)))
           n2 == splay_tree_lookup(m, Node(Wrap(key.host_start - 1), key.host_end))
       IN IF n1 /= {NULLKEY} THEN n1
          ELSE IF n2 /= {NULLKEY} THEN n2
          ELSE splay_tree_lookup(m, key)

----------------------------------------------------------------------------
(* Unmapping                                                               *)

\* gomp_unmap_tgt without its free_func call
gomp_unmap_tgt_leak(m, t) == Free(m, t)

gomp_unmap_tgt(m, t) ==
  LET m1 == IF m.tgts[t].tgt_end /= 0 THEN free_func(m, m.tgts[t].to_free) ELSE m
  IN Free(m1, t)

\* k->tgt->refcount--, without the gomp_unmap_tgt of the last reference
DropTgt_keep(m, t) == [m EXCEPT !.tgts[t].refcount = @ - 1]

\* k->tgt->refcount > 1 ? k->tgt->refcount-- : gomp_unmap_tgt (k->tgt)
DropTgt(m, t) ==
  IF m.tgts[t].refcount > 1
  THEN UnderLock(m, [m EXCEPT !.tgts[t].refcount = @ - 1])
  ELSE gomp_unmap_tgt(m, t)

\* The iteration that copies back whatever do_copyfrom says
UnmapSlot_ignores_do_copyfrom(m, t, i, do_copyfrom) ==
  IF Stopped(m) THEN m
  ELSE IF t \notin DOMAIN m.tgts THEN UndefinedBehaviour(m)
  ELSE
  LET slot == m.tgts[t].list[i]
      k == slot.key
  IN IF k = NULLKEY THEN m
     ELSE IF Dangling(m, k) THEN UndefinedBehaviour(m)
     ELSE
     LET rc == Key(m, k).refcount
         arc == Key(m, k).async_refcount
         do_unmap == rc = 1 /\ ~(arc > 0)
         m1 == IF rc > 1 /\ rc /= REFCOUNT_INFINITY
               THEN UnderLock(m, [m EXCEPT !.tgts[k[1]].array[k[2]].refcount = @ - 1])
               ELSE IF rc = 1
               THEN IF arc > 0
                    THEN UnderLock(m, [m EXCEPT !.tgts[k[1]].array[k[2]].async_refcount
                                                  = @ - 1])
                    ELSE UnderLock(m, [m EXCEPT !.tgts[k[1]].array[k[2]].refcount = @ - 1])
               ELSE m
         m2 == IF (do_unmap /\ slot.copy_from) \/ slot.always_copy_from
               THEN dev2host_func(m1, Wrap(Key(m1, k).host_start + slot.offset),
                                  Wrap(m1.tgts[k[1]].tgt_start + Key(m1, k).tgt_offset
                                       + slot.offset),
                                  slot.length)
               ELSE m1
     IN IF do_unmap THEN DropTgt(splay_tree_remove(m2, k), k[1]) ELSE m2

\* One iteration of the loop of gomp_unmap_vars, on slot i of descriptor t.
UnmapSlot(m, t, i, do_copyfrom) ==
  IF Stopped(m) THEN m
  ELSE IF t \notin DOMAIN m.tgts THEN UndefinedBehaviour(m)
  ELSE
  LET slot == m.tgts[t].list[i]
      k == slot.key
  IN IF k = NULLKEY THEN m
     ELSE IF Dangling(m, k) THEN UndefinedBehaviour(m)
     ELSE
     LET rc == Key(m, k).refcount
         arc == Key(m, k).async_refcount
         do_unmap == rc = 1 /\ ~(arc > 0)
         m1 == IF rc > 1 /\ rc /= REFCOUNT_INFINITY
               THEN UnderLock(m, [m EXCEPT !.tgts[k[1]].array[k[2]].refcount = @ - 1])
               ELSE IF rc = 1
               THEN IF arc > 0
                    THEN UnderLock(m, [m EXCEPT !.tgts[k[1]].array[k[2]].async_refcount
                                                  = @ - 1])
                    ELSE UnderLock(m, [m EXCEPT !.tgts[k[1]].array[k[2]].refcount = @ - 1])
               ELSE m
         m2 == IF (do_unmap /\ do_copyfrom /\ slot.copy_from) \/ slot.always_copy_from
               THEN dev2host_func(m1, Wrap(Key(m1, k).host_start + slot.offset),
                                  Wrap(m1.tgts[k[1]].tgt_start + Key(m1, k).tgt_offset
                                       + slot.offset),
                                  slot.length)
               ELSE m1
     IN IF do_unmap THEN DropTgt(splay_tree_remove(m2, k), k[1]) ELSE m2

RECURSIVE UnmapLoop(_, _, _, _, _)
UnmapLoop(m, t, i, n, do_copyfrom) ==
  IF i > n THEN m
  ELSE UnmapLoop(UnmapSlot(m, t, i, do_copyfrom), t, i + 1, n, do_copyfrom)

gomp_unmap_vars(m, t, do_copyfrom) ==
  IF m.tgts[t].list_count = 0 THEN Free(m, t)
  ELSE
  LET m1 == UnmapLoop(gomp_mutex_lock(m), t, 1, m.tgts[t].list_count, do_copyfrom)
  IN IF Stopped(m1) THEN m1
     ELSE IF t \notin DOMAIN m1.tgts THEN UndefinedBehaviour(m1)
     ELSE gomp_mutex_unlock(DropTgt(m1, t))

\* One iteration of the loop of gomp_copy_from_async, handing over the last
\* reference too and copying back in every case
CopyFromAsyncSlot_handoff(m, t, i) ==
  IF Stopped(m) THEN m
  ELSE
  LET slot == m.tgts[t].list[i]
      k == slot.key
      m1 == IF Key(m, k).refcount >= 1
            THEN [m EXCEPT !.tgts[k[1]].array[k[2]].async_refcount = Wrap(@ + 1)]
            ELSE m
  IN IF k = NULLKEY THEN m
     ELSE IF Dangling(m, k) THEN UndefinedBehaviour(m)
     ELSE IF slot.copy_from
     THEN dev2host_func(m1, Key(m, k).host_start,
                        Wrap(m.tgts[k[1]].tgt_start + Key(m, k).tgt_offset),
                        Wrap(Key(m, k).host_end - Key(m, k).host_start))
     ELSE m1

\* One iteration of the loop of gomp_copy_from_async.
CopyFromAsyncSlot(m, t, i) ==
  IF Stopped(m) THEN m
  ELSE
  LET slot == m.tgts[t].list[i]
      k == slot.key
  IN IF k = NULLKEY THEN m
     ELSE IF Dangling(m, k) THEN UndefinedBehaviour(m)
     ELSE IF Key(m, k).refcount > 1
     THEN UnderLock(m, [m EXCEPT !.tgts[k[1]].array[k[2]].refcount = @ - 1,
                                 !.tgts[k[1]].array[k[2]].async_refcount = Wrap(@ + 1)])
     ELSE IF slot.copy_from
     THEN dev2host_func(m, Key(m, k).host_start,
                        Wrap(m.tgts[k[1]].tgt_start + Key(m, k).tgt_offset),
                        Wrap(Key(m, k).host_end - Key(m, k).host_start))
     ELSE m

RECURSIVE CopyFromAsyncLoop(_, _, _, _)
CopyFromAsyncLoop(m, t, i, n) ==
  IF i > n THEN m
  ELSE CopyFromAsyncLoop(CopyFromAsyncSlot(m, t, i), t, i + 1, n)

gomp_copy_from_async(m, t) ==
  LET m1 == CopyFromAsyncLoop(gomp_mutex_lock(m), t, 1, m.tgts[t].list_count)
  IN IF Stopped(m1) THEN m1 ELSE gomp_mutex_unlock(m1)

----------------------------------------------------------------------------
(* gomp_map_vars                                                           *)

\* A field of a malloc'ed target_var_desc that has not been written yet.
UNINIT == -1

EmptySlot ==
  [key |-> NULLKEY, offset |-> UNINIT, length |-> UNINIT,
   copy_from |-> FALSE, always_copy_from |-> FALSE]

\* gomp_malloc of a descriptor: the lowest id that no live descriptor has and
\* no slot of a live descriptor still points into.
NewTgt(m) ==
  LET used == (DOMAIN m.tgts) \cup
              UNION {{m.tgts[t].list[i].key[1] : i \in 1..Len(m.tgts[t].list)} :
                       t \in DOMAIN m.tgts}
  IN CHOOSE n \in 1..(Cardinality(used) + 1) :
       n \notin used /\ \A x \in 1..(n - 1) : x \in used

AddTgt(m, t, d) == [m EXCEPT !.tgts = [x \in (DOMAIN m.tgts) \cup {t} |->
                                         IF x = t THEN d ELSE m.tgts[x]]]

\* The locals of gomp_map_vars, with the machine state in field m.
LM(L, m2) == [L EXCEPT !.m = m2]

SetSlot(L, i, f, v) == [L EXCEPT !.m.tgts[L.t].list[i][f] = v]

NullSlot(L, i, off) == SetSlot(SetSlot(L, i, "key", NULLKEY), i, "offset", off)

NullKey(L, i) == SetSlot(L, i, "key", NULLKEY)

Next_i(L) == [L EXCEPT !.i = @ + 1]

\* gomp_map_vars_existing without the bump of the record's refcount
gomp_map_vars_existing_nobump(m, oldn, newn, t, i, kind) ==
  LET o == Key(m, oldn)
      m1 == [m EXCEPT !.tgts[t].list[i] =
               [key |-> oldn,
                copy_from |-> GOMP_MAP_COPY_FROM_P(kind),
                always_copy_from |-> GOMP_MAP_ALWAYS_FROM_P(kind),
                offset |-> Wrap(newn.host_start - o.host_start),
                length |-> Wrap(newn.host_end - newn.host_start)]]
  IN IF GOMP_MAP_FLAG_FORCE(kind)
        \/ o.host_start > newn.host_start
        \/ o.host_end < newn.host_end
     THEN gomp_fatal(gomp_mutex_unlock(m1))
     ELSE IF GOMP_MAP_ALWAYS_TO_P(kind)
     THEN host2dev_func(m1, Wrap(m1.tgts[oldn[1]].tgt_start + o.tgt_offset
                                 + newn.host_start - o.host_start),
                        newn.host_start, Wrap(newn.host_end - newn.host_start))
     ELSE m1

\* gomp_map_vars_existing, filling slot i of descriptor t.
gomp_map_vars_existing(m, oldn, newn, t, i, kind) ==
  LET o == Key(m, oldn)
      m1 == [m EXCEPT !.tgts[t].list[i] =
               [key |-> oldn,
                copy_from |-> GOMP_MAP_COPY_FROM_P(kind),
                always_copy_from |-> GOMP_MAP_ALWAYS_FROM_P(kind),
                offset |-> Wrap(newn.host_start - o.host_start),
                length |-> Wrap(newn.host_end - newn.host_start)]]
  IN IF GOMP_MAP_FLAG_FORCE(kind)
        \/ o.host_start > newn.host_start
        \/ o.host_end < newn.host_end
     THEN gomp_fatal(gomp_mutex_unlock(m1))
     ELSE
     LET m2 == IF GOMP_MAP_ALWAYS_TO_P(kind)
               THEN host2dev_func(m1, Wrap(m1.tgts[oldn[1]].tgt_start + o.tgt_offset
                                           + newn.host_start - o.host_start),
                                  newn.host_start,
                                  Wrap(newn.host_end - newn.host_start))
               ELSE m1
     IN IF o.refcount /= REFCOUNT_INFINITY
        THEN UnderLock(m2, [m2 EXCEPT !.tgts[oldn[1]].array[oldn[2]].refcount = Wrap(@ + 1)])
        ELSE m2

\* gomp_map_pointer: write the translated value of a host pointer to the device.
gomp_map_pointer(m, t, host_ptr, target_offset, bias) ==
  IF host_ptr = 0
  THEN {WritePtr(m, Wrap(m.tgts[t].tgt_start + target_offset), 0)}
  ELSE
  LET cur == Node(Wrap(host_ptr + bias), Wrap(host_ptr + bias))
  IN {IF n = NULLKEY
      THEN gomp_fatal(gomp_mutex_unlock(m))
      ELSE WritePtr(m, Wrap(m.tgts[t].tgt_start + target_offset),
                    Wrap(m.tgts[n[1]].tgt_start + Key(m, n).tgt_offset
                         + (cur.host_start - Key(m, n).host_start) - bias))
      : n \in gomp_map_lookup(m, cur)}

\* The test gomp_map_fields_existing makes on a lookup result n2.
SameStruct(m, n, n2) ==
  /\ n2 /= NULLKEY
  /\ n2[1] = n[1]
  /\ Wrap(Key(m, n2).host_start - Key(m, n).host_start)
       = Wrap(Key(m, n2).tgt_offset - Key(m, n).tgt_offset)

gomp_map_fields_existing(m, t, n, first, i, a) ==
  LET cur == Node(a.hostaddrs[i], Wrap(a.hostaddrs[i] + a.sizes[i]))
      kind == a.kinds[i] % 256
      below == Node(Wrap(cur.host_start - 1), cur.host_end)
      above == Node(cur.host_start, Wrap(cur.host_end + 1))
      Fail == gomp_fatal(gomp_mutex_unlock(m))
      Hit(n2) == gomp_map_vars_existing(m, n2, cur, t, i, kind)
      Above == {IF SameStruct(m, n, n4) THEN Hit(n4) ELSE Fail
                  : n4 \in splay_tree_lookup(m, above)}
      Below == IF cur.host_start > a.hostaddrs[first - 1]
               THEN UNION {IF SameStruct(m, n, n3) THEN {Hit(n3)} ELSE Above
                             : n3 \in splay_tree_lookup(m, below)}
               ELSE Above
  IN UNION {IF SameStruct(m, n, n2) THEN {Hit(n2)}
            ELSE IF a.sizes[i] = 0 THEN Below
            ELSE {Fail}
              : n2 \in splay_tree_lookup(m, cur)}

RECURSIVE FieldsLoop(_, _, _, _, _, _, _)
FieldsLoop(S, t, n, first, i, last, a) ==
  IF i > last THEN S
  ELSE FieldsLoop(UNION {IF Stopped(m) THEN {m}
                         ELSE gomp_map_fields_existing(m, t, n, first, i, a) : m \in S},
                  t, n, first, i + 1, last, a)

\* The batch as gomp_map_vars reads it: hostaddrs is the caller's array, which
\* the USE_DEVICE_PTR case overwrites.
Args(L, a) == [a EXCEPT !.hostaddrs = L.hostaddrs]

Max(x, y) == IF x >= y THEN x ELSE y

\* tgt->list[j].key = NULL for j in first..last
NullKeys(L, first, last) ==
  [L EXCEPT !.m.tgts[L.t].list =
     [j \in DOMAIN @ |-> IF j \in first..last
                         THEN [@[j] EXCEPT !.key = NULLKEY] ELSE @[j]]]

\* The number of clauses after clause i that the TO_PSET scan takes: pointer
\* kinds whose address lies inside [hs, he).
RECURSIVE PsetRun(_, _, _, _, _)
PsetRun(a, ha, j, hs, he) ==
  IF j > a.mapnum THEN 0
  ELSE IF ~GOMP_MAP_POINTER_P(KindType(a.kinds[j], a.short)) THEN 0
  ELSE IF ha[j] < hs \/ Wrap(ha[j] + PTR_SIZE) > he THEN 0
  ELSE 1 + PsetRun(a, ha, j + 1, hs, he)

\* Pass 1, the GOMP_MAP_STRUCT case.
Pass1Struct(L, a) ==
  LET i == L.i
      ha == L.hostaddrs
      first == i + 1
      lst == i + a.sizes[i]
      align == KindAlign(a.kinds[i], a.short)
      cur == Node(ha[i], Wrap(ha[lst] + a.sizes[lst]))
      L0 == NullSlot(L, i, Not(2))
      NotFound ==
        [NullKeys(L0, first, lst) EXCEPT
           !.tgt_align = Max(@, align),
           !.tgt_size = Wrap(AlignUp(Wrap(@ - (ha[first] - ha[i])), align)
                             + cur.host_end - ha[i]),
           !.not_found_cnt = @ + (lst - i),
           !.i = lst + 1]
  IN UNION {IF n = NULLKEY THEN {NotFound}
            ELSE {[LM(L0, m2) EXCEPT !.i = lst + 1]
                    : m2 \in FieldsLoop({L0.m}, L.t, n, first, first, lst, Args(L, a))}
              : n \in splay_tree_lookup(L.m, cur)}

\* Pass 1, the clauses that are looked up by their own range.
Pass1Other(L, a) ==
  LET i == L.i
      ha == L.hostaddrs
      typ == KindType(a.kinds[i], a.short)
      align == KindAlign(a.kinds[i], a.short)
      cur == Node(ha[i], IF ~GOMP_MAP_POINTER_P(typ) THEN Wrap(ha[i] + a.sizes[i])
                         ELSE Wrap(ha[i] + PTR_SIZE))
      Sized(X) == [X EXCEPT !.tgt_align = Max(@, align),
                            !.tgt_size = Wrap(AlignUp(@, align)
                                              + cur.host_end - cur.host_start)]
      run == IF typ = GOMP_MAP("TO_PSET")
             THEN PsetRun(a, ha, i + 1, cur.host_start, cur.host_end) ELSE 0
      NotFound == [NullKeys(Sized(NullKey(L, i)), i + 1, i + run) EXCEPT
                     !.not_found_cnt = @ + 1,
                     !.i = i + run + 1]
  IN IF typ = GOMP_MAP("FIRSTPRIVATE")
     THEN {Next_i([Sized(NullKey(L, i)) EXCEPT !.has_firstprivate = TRUE])}
     ELSE {IF n = NULLKEY
           THEN IF typ = GOMP_MAP("ZERO_LEN_ARRAY_SECTION")
                THEN Next_i(NullSlot(L, i, Not(1)))
                ELSE NotFound
           ELSE Next_i(LM(L, gomp_map_vars_existing(L.m, n, cur, L.t, i, typ)))
             : n \in IF typ = GOMP_MAP("ZERO_LEN_ARRAY_SECTION")
                     THEN gomp_map_lookup(L.m, cur)
                     ELSE splay_tree_lookup(L.m, cur)}

\* One iteration of the first loop of gomp_map_vars.
Pass1Step(L, a) ==
  LET i == L.i
      ha == L.hostaddrs
      typ == KindType(a.kinds[i], a.short)
  IN IF ha[i] = 0 \/ typ = GOMP_MAP("FIRSTPRIVATE_INT")
     THEN {Next_i(NullSlot(L, i, Not(0)))}
     ELSE IF typ = GOMP_MAP("USE_DEVICE_PTR")
     THEN {IF n = NULLKEY
           THEN LM(L, gomp_fatal(gomp_mutex_unlock(L.m)))
           ELSE Next_i(NullSlot([L EXCEPT !.hostaddrs[i] =
                                   Wrap(L.m.tgts[n[1]].tgt_start + Key(L.m, n).tgt_offset
                                        + ha[i] - Key(L.m, n).host_start)],
                                i, Not(0)))
             : n \in gomp_map_lookup(L.m, Node(ha[i], ha[i]))}
     ELSE IF typ = GOMP_MAP("STRUCT") THEN Pass1Struct(L, a)
     ELSE Pass1Other(L, a)

RECURSIVE Pass1(_, _)
Pass1(S, a) ==
  LET Done(L) == Stopped(L.m) \/ L.i > a.mapnum
  IN IF \A L \in S : Done(L) THEN S
     ELSE Pass1(UNION {IF Done(L) THEN {L} ELSE Pass1Step(L, a) : L \in S}, a)

\* The allocation between the two passes, made only when a clause was not found
Allocate_notfound(L, a) ==
  IF Stopped(L.m) THEN L
  ELSE IF a.devaddrs /= 0
  THEN IF a.mapnum /= 1
       THEN LM(L, gomp_fatal(gomp_mutex_unlock(L.m)))
       ELSE [L EXCEPT !.m.tgts[L.t].to_free = a.devaddrs,
                      !.m.tgts[L.t].tgt_start = a.devaddrs,
                      !.m.tgts[L.t].tgt_end = Wrap(a.devaddrs + a.sizes[1])]
  ELSE IF L.not_found_cnt /= 0
  THEN LET m1 == alloc_func(L.m, L.t, Wrap(L.tgt_size + L.tgt_align - 1))
           start == AlignUp(DevAddr(L.t), L.tgt_align)
       IN [LM(L, m1) EXCEPT !.m.tgts[L.t].to_free = DevAddr(L.t),
                            !.m.tgts[L.t].tgt_start = start,
                            !.m.tgts[L.t].tgt_end = Wrap(start + L.tgt_size)]
  ELSE [L EXCEPT !.m.tgts[L.t].to_free = 0,
                 !.m.tgts[L.t].tgt_start = 0,
                 !.m.tgts[L.t].tgt_end = 0]

\* The allocation between the two passes.
Allocate(L, a) ==
  IF Stopped(L.m) THEN L
  ELSE IF a.devaddrs /= 0
  THEN IF a.mapnum /= 1
       THEN LM(L, gomp_fatal(gomp_mutex_unlock(L.m)))
       ELSE [L EXCEPT !.m.tgts[L.t].to_free = a.devaddrs,
                      !.m.tgts[L.t].tgt_start = a.devaddrs,
                      !.m.tgts[L.t].tgt_end = Wrap(a.devaddrs + a.sizes[1])]
  ELSE IF L.not_found_cnt /= 0 \/ a.pragma = "TARGET"
  THEN LET m1 == alloc_func(L.m, L.t, Wrap(L.tgt_size + L.tgt_align - 1))
           start == AlignUp(DevAddr(L.t), L.tgt_align)
       IN [LM(L, m1) EXCEPT !.m.tgts[L.t].to_free = DevAddr(L.t),
                            !.m.tgts[L.t].tgt_start = start,
                            !.m.tgts[L.t].tgt_end = Wrap(start + L.tgt_size)]
  ELSE [L EXCEPT !.m.tgts[L.t].to_free = 0,
                 !.m.tgts[L.t].tgt_start = 0,
                 !.m.tgts[L.t].tgt_end = 0]

\* The pointers of a TO_PSET record k that follow clause i: slots j = i+1 .. i+run.
RECURSIVE PsetPointers(_, _, _, _, _, _)
PsetPointers(S, t, k, j, lst, a) ==
  IF j > lst THEN S
  ELSE PsetPointers(
         UNION {IF Stopped(m) THEN {m}
                ELSE LET m1 == [m EXCEPT !.tgts[t].list[j].key = k,
                                         !.tgts[t].list[j].copy_from = FALSE,
                                         !.tgts[t].list[j].always_copy_from = FALSE]
                         m2 == IF Key(m1, k).refcount /= REFCOUNT_INFINITY
                               THEN UnderLock(m1, [m1 EXCEPT !.tgts[k[1]].array[k[2]].refcount
                                                               = Wrap(@ + 1)])
                               ELSE m1
                     IN gomp_map_pointer(m2, t, a.ptrs[j],
                                         Wrap(Key(m2, k).tgt_offset
                                              + (a.hostaddrs[j] - Key(m2, k).host_start)),
                                         a.sizes[j])
                  : m \in S},
         t, k, j + 1, lst, a)

\* GOMP_MAP_FORCE_PRESENT on a range that pass 2 had to create, reported
\* while the device lock is still held
ForcePresentMissing_locked(m) == gomp_fatal(m)

\* GOMP_MAP_FORCE_PRESENT on a range that pass 2 had to create: unlock, then
\* gomp_fatal
ForcePresentMissing(m) == gomp_fatal(gomp_mutex_unlock(m))

\* Pass 2: the record for clause i is created and inserted, then filled by kind.
Pass2Create(L, a) ==
  LET i == L.i
      t == L.t
      ha == L.hostaddrs
      typ == KindType(a.kinds[i], a.short)
      align == KindAlign(a.kinds[i], a.short)
      hs == ha[i]
      he == IF ~GOMP_MAP_POINTER_P(typ) THEN Wrap(ha[i] + a.sizes[i])
            ELSE Wrap(ha[i] + PTR_SIZE)
      k == <<t, L.arr + 1>>
      in_struct == L.field_tgt_clear /= Not(0)
      off == IF in_struct THEN Wrap(hs - L.field_tgt_base + L.field_tgt_offset)
             ELSE AlignUp(L.tgt_size, align)
      rec == [host_start |-> hs, host_end |-> he, tgt |-> t, tgt_offset |-> off,
              refcount |-> 1, async_refcount |-> 0]
      L1 == [L EXCEPT
               !.field_tgt_clear = IF in_struct /\ i = @ THEN Not(0) ELSE @,
               !.tgt_size = IF in_struct THEN @ ELSE Wrap(off + he - hs),
               !.arr = @ + 1,
               !.m.tgts[t].array = Append(@, rec),
               !.m.tgts[t].refcount = Wrap(@ + 1),
               !.m.tgts[t].list[i] =
                  [key |-> k, copy_from |-> GOMP_MAP_COPY_FROM_P(typ),
                   always_copy_from |-> GOMP_MAP_ALWAYS_FROM_P(typ),
                   offset |-> 0, length |-> Wrap(he - hs)]]
      m1 == splay_tree_insert(L1.m, k)
      dev == Wrap(m1.tgts[t].tgt_start + off)
      run == PsetRun(a, ha, i + 1, hs, he)
  IN IF typ \in {GOMP_MAP("ALLOC"), GOMP_MAP("FROM"), GOMP_MAP("FORCE_ALLOC"),
                 GOMP_MAP("FORCE_FROM"), GOMP_MAP("ALWAYS_FROM")}
     THEN {Next_i(LM(L1, m1))}
     ELSE IF typ \in {GOMP_MAP("TO"), GOMP_MAP("TOFROM"), GOMP_MAP("FORCE_TO"),
                      GOMP_MAP("FORCE_TOFROM"), GOMP_MAP("ALWAYS_TO"),
                      GOMP_MAP("ALWAYS_TOFROM")}
     THEN {Next_i(LM(L1, host2dev_func(m1, dev, hs, Wrap(he - hs))))}
     ELSE IF typ = GOMP_MAP("POINTER")
     THEN {Next_i(LM(L1, m2)) : m2 \in gomp_map_pointer(m1, t, a.ptrs[i], off, a.sizes[i])}
     ELSE IF typ = GOMP_MAP("TO_PSET")
     THEN {[LM(L1, m2) EXCEPT !.i = i + run + 1]
             : m2 \in PsetPointers({host2dev_func(m1, dev, hs, Wrap(he - hs))},
                                   t, k, i + 1, i + run, Args(L, a))}
     ELSE IF typ = GOMP_MAP("FORCE_PRESENT")
     THEN {LM(L1, ForcePresentMissing(m1))}
     ELSE IF typ = GOMP_MAP("FORCE_DEVICEPTR")
     THEN IF Wrap(he - hs) /= PTR_SIZE THEN {LM(L1, abort(m1))}
          ELSE {Next_i(LM(L1, host2dev_func(m1, dev, hs, PTR_SIZE)))}
     ELSE {LM(L1, gomp_fatal(gomp_mutex_unlock(m1)))}

\* Pass 2, the GOMP_MAP_STRUCT case.
Pass2Struct(L, a) ==
  LET i == L.i
      ha == L.hostaddrs
      first == i + 1
      lst == i + a.sizes[i]
      align == KindAlign(a.kinds[i], a.short)
      cur == Node(ha[i], Wrap(ha[lst] + a.sizes[lst]))
      base == Wrap(AlignUp(Wrap(L.tgt_size - (ha[first] - ha[i])), align)
                   + (ha[first] - ha[i]))
      NotFound == [L EXCEPT !.field_tgt_base = ha[first],
                            !.field_tgt_offset = base,
                            !.field_tgt_clear = lst,
                            !.tgt_size = Wrap(base + cur.host_end - ha[first]),
                            !.i = i + 1]
  IN IF L.m.tgts[L.t].list[first].key /= NULLKEY THEN {Next_i(L)}
     ELSE UNION {IF n = NULLKEY THEN {NotFound}
                 ELSE {[LM(L, m2) EXCEPT !.i = lst + 1]
                         : m2 \in FieldsLoop({L.m}, L.t, n, first, first, lst, Args(L, a))}
                   : n \in splay_tree_lookup(L.m, cur)}

\* One iteration of the second loop of gomp_map_vars.
Pass2Step(L, a) ==
  LET i == L.i
      ha == L.hostaddrs
      typ == KindType(a.kinds[i], a.short)
      align == KindAlign(a.kinds[i], a.short)
      at == AlignUp(L.tgt_size, align)
      k == Node(ha[i], IF ~GOMP_MAP_POINTER_P(typ) THEN Wrap(ha[i] + a.sizes[i])
                       ELSE Wrap(ha[i] + PTR_SIZE))
  IN IF L.m.tgts[L.t].list[i].key /= NULLKEY \/ ha[i] = 0 THEN {Next_i(L)}
     ELSE IF typ = GOMP_MAP("FIRSTPRIVATE")
     THEN {Next_i([LM(SetSlot(L, i, "offset", at),
                      host2dev_func(SetSlot(L, i, "offset", at).m,
                                    Wrap(L.m.tgts[L.t].tgt_start + at), ha[i], a.sizes[i]))
                     EXCEPT !.tgt_size = Wrap(at + a.sizes[i])])}
     ELSE IF typ \in {GOMP_MAP("FIRSTPRIVATE_INT"), GOMP_MAP("USE_DEVICE_PTR"),
                      GOMP_MAP("ZERO_LEN_ARRAY_SECTION")}
     THEN {Next_i(L)}
     ELSE IF typ = GOMP_MAP("STRUCT") THEN Pass2Struct(L, a)
     ELSE IF L.arr + 1 > L.not_found_cnt THEN {LM(L, UndefinedBehaviour(L.m))}
     ELSE UNION {IF n /= NULLKEY
                 THEN {Next_i(LM(L, gomp_map_vars_existing(L.m, n, k, L.t, i, typ)))}
                 ELSE Pass2Create(L, a)
                   : n \in splay_tree_lookup(L.m, k)}

RECURSIVE Pass2(_, _)
Pass2(S, a) ==
  LET Done(L) == Stopped(L.m) \/ L.i > a.mapnum
  IN IF \A L \in S : Done(L) THEN S
     ELSE Pass2(UNION {IF Done(L) THEN {L} ELSE Pass2Step(L, a) : L \in S}, a)

\* The address of a struct taken to be that of its first field
ArgValue_first_field(L, i) ==
  LET m == L.m
      slot == m.tgts[L.t].list[i]
      nxt == m.tgts[L.t].list[i + 1]
  IN IF slot.key = NULLKEY
     THEN IF slot.offset = Not(0) THEN L.hostaddrs[i]
          ELSE IF slot.offset = Not(1) THEN 0
          ELSE IF slot.offset = Not(2)
          THEN Wrap(m.tgts[nxt.key[1]].tgt_start + Key(m, nxt.key).tgt_offset
                    + nxt.offset)
          ELSE IF slot.offset = UNINIT THEN UNINIT
          ELSE Wrap(m.tgts[L.t].tgt_start + slot.offset)
     ELSE IF slot.offset = UNINIT THEN UNINIT
     ELSE Wrap(m.tgts[slot.key[1]].tgt_start + Key(m, slot.key).tgt_offset + slot.offset)

\* The device address gomp_map_vars passes to a TARGET region for clause i.
ArgValue(L, i) ==
  LET m == L.m
      slot == m.tgts[L.t].list[i]
      nxt == m.tgts[L.t].list[i + 1]
  IN IF slot.key = NULLKEY
     THEN IF slot.offset = Not(0) THEN L.hostaddrs[i]
          ELSE IF slot.offset = Not(1) THEN 0
          ELSE IF slot.offset = Not(2)
          THEN Wrap(m.tgts[nxt.key[1]].tgt_start + Key(m, nxt.key).tgt_offset
                    + nxt.offset + L.hostaddrs[i] - L.hostaddrs[i + 1])
          ELSE IF slot.offset = UNINIT THEN UNINIT
          ELSE Wrap(m.tgts[L.t].tgt_start + slot.offset)
     ELSE IF slot.offset = UNINIT THEN UNINIT
     ELSE Wrap(m.tgts[slot.key[1]].tgt_start + Key(m, slot.key).tgt_offset + slot.offset)

\* One iteration of the loop that writes the argument array.
ArgStep(L, i) ==
  LET slot == L.m.tgts[L.t].list[i]
  IN IF Stopped(L.m) THEN L
     ELSE IF slot.key = NULLKEY /\ slot.offset = Not(2)
             /\ (i + 1 > Len(L.m.tgts[L.t].list)
                 \/ L.m.tgts[L.t].list[i + 1].key = NULLKEY)
     THEN LM(L, UndefinedBehaviour(L.m))
     ELSE LM(L, WritePtr(L.m, Wrap(L.m.tgts[L.t].tgt_start + (i - 1) * PTR_SIZE),
                         ArgValue(L, i)))

RECURSIVE ArgArray(_, _, _)
ArgArray(L, i, n) == IF i > n THEN L ELSE ArgArray(ArgStep(L, i), i + 1, n)

\* The end of gomp_map_vars that keeps the descriptor of an enter-data call
\* that mapped nothing
MapReturn_keeps(L, a) ==
  IF Stopped(L.m) THEN <<L.m, 0>>
  ELSE <<gomp_mutex_unlock(L.m), L.t>>

\* The end of gomp_map_vars: <<machine state, descriptor returned (0: NULL)>>.
MapReturn(L, a) ==
  IF Stopped(L.m) THEN <<L.m, 0>>
  ELSE IF a.pragma = "ENTER_DATA" /\ L.m.tgts[L.t].refcount = 0
  THEN <<gomp_mutex_unlock(Free(L.m, L.t)), 0>>
  ELSE <<gomp_mutex_unlock(L.m), L.t>>

\* gomp_map_vars on the batch a = [mapnum, hostaddrs, sizes, kinds, ptrs, short,
\* pragma, devaddrs]; ptrs[i] is the pointer stored in host memory at
\* hostaddrs[i].  The set of its outcomes, one per choice of lookup results.
gomp_map_vars(m, a) ==
  LET t == NewTgt(m)
      d == [list_count |-> a.mapnum,
            refcount |-> IF a.pragma = "ENTER_DATA" THEN 0 ELSE 1,
            list |-> [i \in 1..a.mapnum |-> EmptySlot],
            array |-> <<>>,
            tgt_start |-> 0, tgt_end |-> 0, to_free |-> 0]
      m0 == AddTgt(m, t, d)
      L0 == [m |-> gomp_mutex_lock(m0), t |-> t, i |-> 1,
             tgt_align |-> IF a.pragma = "TARGET" THEN 4 * PTR_SIZE ELSE PTR_SIZE,
             tgt_size |-> IF a.pragma = "TARGET" THEN a.mapnum * PTR_SIZE ELSE 0,
             not_found_cnt |-> 0, has_firstprivate |-> FALSE,
             hostaddrs |-> a.hostaddrs, arr |-> 0,
             field_tgt_offset |-> 0, field_tgt_clear |-> Not(0), field_tgt_base |-> 0]
      Second(L) ==
        LET L1 == [L EXCEPT !.i = 1,
                            !.tgt_size = IF a.pragma = "TARGET"
                                         THEN a.mapnum * PTR_SIZE ELSE 0]
        IN IF Stopped(L.m) THEN {L}
           ELSE IF L.not_found_cnt /= 0 \/ L.has_firstprivate THEN Pass2({L1}, a)
           ELSE {L1}
      Third(L) == IF a.pragma = "TARGET" THEN ArgArray(L, 1, a.mapnum) ELSE L
  IN IF a.mapnum = 0 THEN {<<m0, t>>}
     ELSE {MapReturn(Third(L2), a) :
             L2 \in UNION {Second(Allocate(L1, a)) : L1 \in Pass1({L0}, a)}}

----------------------------------------------------------------------------
(* gomp_update, gomp_exit_data                                             *)

\* UpdateStep copying the whole record that holds the clause
UpdateStep_whole_record(m, a, i) ==
  LET cur == Node(a.hostaddrs[i], Wrap(a.hostaddrs[i] + a.sizes[i]))
      typ == KindType(a.kinds[i], a.short)
      Hit(n) ==
        LET r == Key(m, n)
            dev == Wrap(m.tgts[n[1]].tgt_start + r.tgt_offset)
            len == Wrap(r.host_end - r.host_start)
            m1 == IF GOMP_MAP_COPY_TO_P(typ)
                  THEN host2dev_func(m, dev, r.host_start, len) ELSE m
        IN IF r.host_start > cur.host_start \/ r.host_end < cur.host_end
           THEN gomp_fatal(gomp_mutex_unlock(m))
           ELSE IF GOMP_MAP_COPY_FROM_P(typ)
           THEN dev2host_func(m1, r.host_start, dev, len)
           ELSE m1
  IN IF a.sizes[i] = 0 THEN {m}
     ELSE {IF n = NULLKEY THEN m ELSE Hit(n) : n \in splay_tree_lookup(m, cur)}

\* One iteration of the loop of gomp_update.
UpdateStep(m, a, i) ==
  LET cur == Node(a.hostaddrs[i], Wrap(a.hostaddrs[i] + a.sizes[i]))
      typ == KindType(a.kinds[i], a.short)
      Hit(n) ==
        LET r == Key(m, n)
            dev == Wrap(m.tgts[n[1]].tgt_start + r.tgt_offset
                        + cur.host_start - r.host_start)
            len == Wrap(cur.host_end - cur.host_start)
            m1 == IF GOMP_MAP_COPY_TO_P(typ)
                  THEN host2dev_func(m, dev, cur.host_start, len) ELSE m
        IN IF r.host_start > cur.host_start \/ r.host_end < cur.host_end
           THEN gomp_fatal(gomp_mutex_unlock(m))
           ELSE IF GOMP_MAP_COPY_FROM_P(typ)
           THEN dev2host_func(m1, cur.host_start, dev, len)
           ELSE m1
  IN IF a.sizes[i] = 0 THEN {m}
     ELSE {IF n = NULLKEY THEN m ELSE Hit(n) : n \in splay_tree_lookup(m, cur)}

RECURSIVE UpdateLoop(_, _, _)
UpdateLoop(S, a, i) ==
  IF i > a.mapnum THEN S
  ELSE UpdateLoop(UNION {IF Stopped(m) THEN {m} ELSE UpdateStep(m, a, i) : m \in S},
                  a, i + 1)

gomp_update(m, a) ==
  IF a.mapnum = 0 THEN {m}
  ELSE {IF Stopped(m1) THEN m1 ELSE gomp_mutex_unlock(m1)
          : m1 \in UpdateLoop({gomp_mutex_lock(m)}, a, 1)}

\* One iteration of the loop of gomp_exit_data, whose delete kinds zero every
\* refcount
ExitDataStep_deletes_pinned(m, a, i) ==
  LET kind == a.kinds[i] % 256
      cur == Node(a.hostaddrs[i], Wrap(a.hostaddrs[i] + a.sizes[i]))
      zero_len == kind \in {GOMP_MAP("DELETE_ZERO_LEN_ARRAY_SECTION"),
                            GOMP_MAP("ZERO_LEN_ARRAY_SECTION")}
      delete == kind \in {GOMP_MAP("DELETE"), GOMP_MAP("DELETE_ZERO_LEN_ARRAY_SECTION")}
      Hit(k) ==
        LET rc0 == Key(m, k).refcount
            rc1 == IF rc0 > 0 /\ rc0 /= REFCOUNT_INFINITY THEN rc0 - 1 ELSE rc0
            rc2 == IF delete THEN 0 ELSE rc1
            m1 == [m EXCEPT !.tgts[k[1]].array[k[2]].refcount = rc2]
            m2 == IF (kind = GOMP_MAP("FROM") /\ rc2 = 0) \/ kind = GOMP_MAP("ALWAYS_FROM")
                  THEN dev2host_func(m1, cur.host_start,
                                     Wrap(m1.tgts[k[1]].tgt_start + Key(m1, k).tgt_offset
                                          + cur.host_start - Key(m1, k).host_start),
                                     Wrap(cur.host_end - cur.host_start))
                  ELSE m1
        IN IF rc2 = 0 THEN DropTgt(splay_tree_remove(m2, k), k[1]) ELSE m2
  IN IF kind \in {GOMP_MAP("FROM"), GOMP_MAP("ALWAYS_FROM"), GOMP_MAP("DELETE"),
                  GOMP_MAP("RELEASE"), GOMP_MAP("ZERO_LEN_ARRAY_SECTION"),
                  GOMP_MAP("DELETE_ZERO_LEN_ARRAY_SECTION")}
     THEN {IF k = NULLKEY THEN m ELSE Hit(k)
             : k \in IF zero_len THEN gomp_map_lookup(m, cur)
                     ELSE splay_tree_lookup(m, cur)}
     ELSE {gomp_fatal(gomp_mutex_unlock(m))}

\* One iteration of the loop of gomp_exit_data.
ExitDataStep(m, a, i) ==
  LET kind == a.kinds[i] % 256
      cur == Node(a.hostaddrs[i], Wrap(a.hostaddrs[i] + a.sizes[i]))
      zero_len == kind \in {GOMP_MAP("DELETE_ZERO_LEN_ARRAY_SECTION"),
                            GOMP_MAP("ZERO_LEN_ARRAY_SECTION")}
      delete == kind \in {GOMP_MAP("DELETE"), GOMP_MAP("DELETE_ZERO_LEN_ARRAY_SECTION")}
      Hit(k) ==
        LET rc0 == Key(m, k).refcount
            rc1 == IF rc0 > 0 /\ rc0 /= REFCOUNT_INFINITY THEN rc0 - 1 ELSE rc0
            rc2 == IF delete /\ rc1 /= REFCOUNT_INFINITY THEN 0 ELSE rc1
            m1 == IF rc2 /= rc0
                  THEN UnderLock(m, [m EXCEPT !.tgts[k[1]].array[k[2]].refcount = rc2])
                  ELSE m
            m2 == IF (kind = GOMP_MAP("FROM") /\ rc2 = 0) \/ kind = GOMP_MAP("ALWAYS_FROM")
                  THEN dev2host_func(m1, cur.host_start,
                                     Wrap(m1.tgts[k[1]].tgt_start + Key(m1, k).tgt_offset
                                          + cur.host_start - Key(m1, k).host_start),
                                     Wrap(cur.host_end - cur.host_start))
                  ELSE m1
        IN IF rc2 = 0 THEN DropTgt(splay_tree_remove(m2, k), k[1]) ELSE m2
  IN IF kind \in {GOMP_MAP("FROM"), GOMP_MAP("ALWAYS_FROM"), GOMP_MAP("DELETE"),
                  GOMP_MAP("RELEASE"), GOMP_MAP("ZERO_LEN_ARRAY_SECTION"),
                  GOMP_MAP("DELETE_ZERO_LEN_ARRAY_SECTION")}
     THEN {IF k = NULLKEY THEN m ELSE Hit(k)
             : k \in IF zero_len THEN gomp_map_lookup(m, cur)
                     ELSE splay_tree_lookup(m, cur)}
     ELSE {gomp_fatal(gomp_mutex_unlock(m))}

RECURSIVE ExitDataLoop(_, _, _)
ExitDataLoop(S, a, i) ==
  IF i > a.mapnum THEN S
  ELSE ExitDataLoop(UNION {IF Stopped(m) THEN {m} ELSE ExitDataStep(m, a, i) : m \in S},
                    a, i + 1)

\* gomp_exit_data without its gomp_mutex_lock
gomp_exit_data_unlocked(m, a) == ExitDataLoop({m}, a, 1)

gomp_exit_data(m, a) ==
  {IF Stopped(m1) THEN m1 ELSE gomp_mutex_unlock(m1)
     : m1 \in ExitDataLoop({gomp_mutex_lock(m)}, a, 1)}

----------------------------------------------------------------------------
(* Offload images and the device                                           *)

EINVAL == 22

GOMP_DEVICE_ICV == -1

GOMP_DEVICE_HOST_FALLBACK == -2

\* icv->default_device_var of the calling task
default_device_var == 0

\* gomp_get_num_devices (): the one device of the model has id 0
num_devices_openmp == 1

\* devices[0].type
DeviceType == "T0"

GOMP_OFFLOAD_CAP_OPENMP_400 == "OPENMP_400"

\* devices[0].capabilities: gomp_target_init puts the devices with
\* GOMP_OFFLOAD_CAP_OPENMP_400 first and counts them in num_devices_openmp
capabilities == {GOMP_OFFLOAD_CAP_OPENMP_400}

\* The records of one image: a function is [f, f + 1), a variable [v, v + size).
ImageKeys(image, t) ==
  [j \in 1..(Len(image.funcs) + Len(image.vars)) |->
     IF j <= Len(image.funcs)
     THEN [host_start |-> image.funcs[j], host_end |-> Wrap(image.funcs[j] + 1),
           tgt |-> t, tgt_offset |-> image.target[j].start,
           refcount |-> REFCOUNT_INFINITY, async_refcount |-> 0]
     ELSE LET v == image.vars[j - Len(image.funcs)]
          IN [host_start |-> v.addr, host_end |-> Wrap(v.addr + v.size),
              tgt |-> t, tgt_offset |-> image.target[j].start,
              refcount |-> REFCOUNT_INFINITY, async_refcount |-> 0]]

\* The inserts of gomp_load_image_to_device, one record after the other; a
\* variable whose device size differs from its host size is fatal.
RECURSIVE LoadInsert(_, _, _, _, _)
LoadInsert(m, image, t, j, is_register_lock) ==
  IF j > Len(image.funcs) + Len(image.vars) THEN m
  ELSE IF j > Len(image.funcs)
          /\ Wrap(image.target[j].end - image.target[j].start)
               /= image.vars[j - Len(image.funcs)].size
  THEN LET m1 == gomp_mutex_unlock(m)
       IN gomp_fatal(IF is_register_lock THEN [m1 EXCEPT !.register_lock = FALSE] ELSE m1)
  ELSE LoadInsert(splay_tree_insert([m EXCEPT !.tgts[t].array =
                                       Append(@, ImageKeys(image, t)[j])],
                                    <<t, j>>),
                  image, t, j + 1, is_register_lock)

\* gomp_load_image_to_device reporting a table of the wrong length with
\* register_lock still held
gomp_load_image_to_device_keeps_register_lock(m, image, is_register_lock) ==
  LET t == NewTgt(m)
      d == [list_count |-> 0, refcount |-> REFCOUNT_INFINITY, list |-> <<>>,
            array |-> <<>>, tgt_start |-> 0, tgt_end |-> 0, to_free |-> 0]
      m0 == Log(m, Ev("load_image", 0, 0, Len(image.target)))
  IN IF Len(image.target) /= Len(image.funcs) + Len(image.vars)
     THEN gomp_fatal(gomp_mutex_unlock(m0))
     ELSE LoadInsert(AddTgt(m0, t, d), image, t, 1, is_register_lock)

\* image = [version, type, funcs, vars, target]: target is the table the
\* plugin's load_image_func returns for it.
gomp_load_image_to_device(m, image, is_register_lock) ==
  LET t == NewTgt(m)
      d == [list_count |-> 0, refcount |-> REFCOUNT_INFINITY, list |-> <<>>,
            array |-> <<>>, tgt_start |-> 0, tgt_end |-> 0, to_free |-> 0]
      m0 == Log(m, Ev("load_image", 0, 0, Len(image.target)))
  IN IF Len(image.target) /= Len(image.funcs) + Len(image.vars)
     THEN LET m1 == gomp_mutex_unlock(m0)
          IN gomp_fatal(IF is_register_lock THEN [m1 EXCEPT !.register_lock = FALSE]
                        ELSE m1)
     ELSE LoadInsert(AddTgt(m0, t, d), image, t, 1, is_register_lock)

RECURSIVE InitLoad(_, _)
InitLoad(m, i) ==
  IF Stopped(m) \/ i > Len(m.offload_images) THEN m
  ELSE InitLoad(IF m.offload_images[i].type = DeviceType
                THEN gomp_load_image_to_device(m, m.offload_images[i], FALSE)
                ELSE m,
                i + 1)

gomp_init_device(m) ==
  LET m1 == InitLoad(Log(m, Ev("init_device", 0, 0, 0)), 1)
  IN IF Stopped(m1) THEN m1 ELSE [m1 EXCEPT !.is_initialized = TRUE]

\* resolve_device that takes the id one past the last device
resolve_device_past_last(m, device_id) ==
  LET id == IF device_id = GOMP_DEVICE_ICV THEN default_device_var ELSE device_id
      m1 == IF ~m.is_initialized THEN gomp_init_device(gomp_mutex_lock(m))
            ELSE gomp_mutex_lock(m)
  IN IF id < 0 \/ id > num_devices_openmp THEN <<m, FALSE>>
     ELSE IF Stopped(m1) THEN <<m1, FALSE>>
     ELSE <<gomp_mutex_unlock(m1), TRUE>>

\* resolve_device: <<machine state, the device found (FALSE: NULL)>>
resolve_device(m, device_id) ==
  LET id == IF device_id = GOMP_DEVICE_ICV THEN default_device_var ELSE device_id
      m1 == IF ~m.is_initialized THEN gomp_init_device(gomp_mutex_lock(m))
            ELSE gomp_mutex_lock(m)
  IN IF id < 0 \/ id >= num_devices_openmp THEN <<m, FALSE>>
     ELSE IF Stopped(m1) THEN <<m1, FALSE>>
     ELSE <<gomp_mutex_unlock(m1), TRUE>>

\* The version of this library, and the library version packed in the version
\* word of an image.
GOMP_VERSION == 0

GOMP_VERSION_LIB(PACK) == (PACK \div 2^16) % 2^16

GOMP_offload_register_ver(m, image) ==
  LET m1 == gomp_mutex_lock([m EXCEPT !.register_lock = TRUE])
      m2 == IF DeviceType = image.type /\ m1.is_initialized
            THEN gomp_load_image_to_device(m1, image, TRUE)
            ELSE m1
  IN IF GOMP_VERSION_LIB(image.version) > GOMP_VERSION THEN gomp_fatal(m)
     ELSE IF Stopped(m2) THEN m2
     ELSE [gomp_mutex_unlock(m2) EXCEPT !.offload_images = Append(@, image),
                                        !.register_lock = FALSE]

\* splay_tree_remove by value, on each machine state of S: the record that
\* compares equal to the key r leaves the index, if there is one.
RemoveRange(S, r) ==
  UNION {{IF n = NULLKEY THEN m ELSE splay_tree_remove(m, n)
            : n \in splay_tree_lookup(m, r)} : m \in S}

\* The keys gomp_unload_image_from_device removes: the functions, then the
\* variables.
UnloadKeys(image) ==
  [j \in 1..(Len(image.funcs) + Len(image.vars)) |->
     IF j <= Len(image.funcs)
     THEN Node(image.funcs[j], Wrap(image.funcs[j] + 1))
     ELSE LET v == image.vars[j - Len(image.funcs)]
          IN Node(v.addr, Wrap(v.addr + v.size))]

RECURSIVE UnloadRemove(_, _, _)
UnloadRemove(S, image, j) ==
  IF j > Len(UnloadKeys(image)) THEN S
  ELSE UnloadRemove(RemoveRange(S, UnloadKeys(image)[j]), image, j + 1)

\* free (node->tgt); free (node): node has to be the first record of its array.
FreeNode(m, node) ==
  IF node = NULLKEY THEN m
  ELSE IF Dangling(m, node) \/ node[2] /= 1 THEN UndefinedBehaviour(m)
  ELSE Free(m, node[1])

\* gomp_unload_image_from_device that frees nothing
gomp_unload_image_from_device_leak(m, image) ==
  UnloadRemove({Log(m, Ev("unload_image", 0, 0, 0))}, image, 1)

\* gomp_unload_image_from_device, called with the device locked: the set of
\* its outcomes, one per choice of lookup results.
gomp_unload_image_from_device(m, image) ==
  LET first == IF Len(image.funcs) /= 0 THEN image.funcs[1] ELSE image.vars[1].addr
      nodes == IF Len(image.funcs) /= 0 \/ Len(image.vars) /= 0
               THEN splay_tree_lookup(m, Node(first, Wrap(first + 1)))
               ELSE {NULLKEY}
  IN UNION {{FreeNode(m2, node)
               : m2 \in UnloadRemove({Log(m, Ev("unload_image", 0, 0, 0))}, image, 1)}
              : node \in nodes}

\* offload_images[i] = offload_images[--num_offload_images] for the first i
\* that holds the image
RemoveImage(images, image) ==
  LET hit == {i \in 1..Len(images) : images[i] = image}
      i == CHOOSE x \in hit : \A y \in hit : x <= y
  IN IF hit = {} THEN images
     ELSE [j \in 1..(Len(images) - 1) |-> IF j = i THEN images[Len(images)] ELSE images[j]]

\* GOMP_offload_unregister_ver: the set of its outcomes
GOMP_offload_unregister_ver(m, image) ==
  LET m1 == gomp_mutex_lock([m EXCEPT !.register_lock = TRUE])
      S == IF DeviceType = image.type /\ m1.is_initialized
           THEN gomp_unload_image_from_device(m1, image)
           ELSE {m1}
  IN {IF Stopped(m2) THEN m2
      ELSE [gomp_mutex_unlock(m2) EXCEPT !.offload_images = RemoveImage(@, image),
                                         !.register_lock = FALSE]
        : m2 \in S}

----------------------------------------------------------------------------
(* Entry points                                                            *)

\* &hostaddrs[i], &sizes[i], &kinds[i] with mapnum n
Slice(a, i, n, pragma) ==
  [mapnum |-> n,
   hostaddrs |-> [j \in 1..n |-> a.hostaddrs[i + j - 1]],
   sizes |-> [j \in 1..n |-> a.sizes[i + j - 1]],
   kinds |-> [j \in 1..n |-> a.kinds[i + j - 1]],
   ptrs |-> [j \in 1..n |-> a.ptrs[i + j - 1]],
   short |-> TRUE, pragma |-> pragma, devaddrs |-> 0]

\* The enter-data loop of GOMP_target_enter_exit_data: one gomp_map_vars per
\* clause, or per GOMP_MAP_STRUCT clause with its fields.
RECURSIVE EnterDataLoop(_, _, _)
EnterDataLoop(S, a, i) ==
  IF i > a.mapnum THEN S
  ELSE LET n == IF a.kinds[i] % 256 = GOMP_MAP("STRUCT") THEN a.sizes[i] + 1 ELSE 1
       IN EnterDataLoop(UNION {IF Stopped(m) THEN {m}
                               ELSE {r[1] : r \in gomp_map_vars(m, Slice(a, i, n, "ENTER_DATA"))}
                                 : m \in S},
                        a, i + n)

\* GOMP_target_enter_exit_data that returns before gomp_exit_data
GOMP_target_enter_exit_data_enters_only(m, device, a, exit_data) ==
  LET r == resolve_device(m, device)
  IN IF ~r[2] \/ GOMP_OFFLOAD_CAP_OPENMP_400 \notin capabilities THEN {r[1]}
     ELSE IF ~exit_data THEN EnterDataLoop({r[1]}, a, 1)
     ELSE {r[1]}

GOMP_target_enter_exit_data(m, device, a, exit_data) ==
  LET r == resolve_device(m, device)
  IN IF ~r[2] \/ GOMP_OFFLOAD_CAP_OPENMP_400 \notin capabilities THEN {r[1]}
     ELSE IF ~exit_data THEN EnterDataLoop({r[1]}, a, 1)
     ELSE gomp_exit_data(r[1], a)

\* gomp_get_target_fn_addr on a device without native execution: the set of
\* <<machine state, device address of the function>>
gomp_get_target_fn_addr(m, host_fn) ==
  {<<IF n = NULLKEY THEN gomp_fatal(gomp_mutex_unlock(gomp_mutex_lock(m)))
     ELSE gomp_mutex_unlock(gomp_mutex_lock(m)),
     IF n = NULLKEY THEN 0 ELSE Key(m, n).tgt_offset>>
     : n \in splay_tree_lookup(m, Node(host_fn, Wrap(host_fn + 1)))}

\* GOMP_target: map the batch for a launch, run fn on the device, unmap with
\* copy-back.  A device that cannot be resolved runs fn on the host.
GOMP_target(m, device, fn, a) ==
  LET r == resolve_device(m, device)
      Run(x) == IF Stopped(x[1]) THEN x[1]
                ELSE gomp_unmap_vars(Log(x[1], Ev("run", x[1].tgts[x[2]].tgt_start, 0, 0)),
                                     x[2], TRUE)
  IN IF Stopped(r[1]) THEN {r[1]}
     ELSE IF ~r[2] \/ GOMP_OFFLOAD_CAP_OPENMP_400 \notin capabilities
     THEN {Log(r[1], Ev("fallback", 0, 0, 0))}
     ELSE UNION {IF Stopped(f[1]) THEN {f[1]}
                 ELSE {Run(x) : x \in gomp_map_vars(f[1], a)}
                   : f \in gomp_get_target_fn_addr(r[1], fn)}

\* The thread state around the run of fn, in gomp_target_fallback and in
\* GOMP_target: fn sees a cleared state, which keeps the place when there is
\* a places list; the state of the caller is put back after it.
RunAround(thr, gomp_places_list) ==
  LET old_thr == thr
      cleared == [place |-> IF gomp_places_list THEN old_thr.place ELSE 0, team |-> FALSE]
  IN [seen |-> cleared, thr |-> old_thr]

\* GOMP_target_update: gomp_update on the resolved device
GOMP_target_update(m, device, a) ==
  LET r == resolve_device(m, device)
  IN IF Stopped(r[1]) THEN {r[1]}
     ELSE IF ~r[2] \/ GOMP_OFFLOAD_CAP_OPENMP_400 \notin capabilities THEN {r[1]}
     ELSE gomp_update(r[1], a)

\* The arguments of gomp_map_vars (NULL, 0, NULL, NULL, NULL, NULL, false,
\* GOMP_MAP_VARS_DATA)
NoClauses ==
  [mapnum |-> 0, hostaddrs |-> << >>, sizes |-> << >>, kinds |-> << >>, ptrs |-> << >>,
   short |-> FALSE, pragma |-> "DATA", devaddrs |-> 0]

\* gomp_target_data_fallback that never remembers the region
gomp_target_data_fallback_forgets(m, td) == {<<m, td>>}

\* gomp_target_data_fallback with icv->target_data = td: <<machine state, td>>.
\* With a region open it pushes the descriptor of an empty gomp_map_vars.
gomp_target_data_fallback(m, td) ==
  IF td /= << >>
  THEN {<<r[1], <<r[2]>> \o td>> : r \in gomp_map_vars(m, NoClauses)}
  ELSE {<<m, td>>}

\* GOMP_target_data and GOMP_target_data_41 (a.short tells them apart) with
\* icv->target_data = td: <<machine state, icv->target_data>>.
GOMP_target_data(m, td, device, a) ==
  LET r == resolve_device(m, device)
  IN IF Stopped(r[1]) THEN {<<r[1], td>>}
     ELSE IF ~r[2] \/ GOMP_OFFLOAD_CAP_OPENMP_400 \notin capabilities
     THEN gomp_target_data_fallback(r[1], td)
     ELSE {IF Stopped(x[1]) THEN <<x[1], td>> ELSE <<x[1], <<x[2]>> \o td>>
             : x \in gomp_map_vars(r[1], a)}

\* GOMP_target_end_data: <<machine state, icv->target_data>>
GOMP_target_end_data(m, td) ==
  IF td /= << >>
  THEN <<gomp_unmap_vars(m, Head(td), TRUE), Tail(td)>>
  ELSE <<m, td>>

\* The bits of the flags argument of the 4.1 entry points; flags is the set
\* of its bits.
GOMP_TARGET_FLAG_NOWAIT == "NOWAIT"

GOMP_TARGET_FLAG_EXIT_DATA == "EXIT_DATA"

GOMP_TARGET_FLAG_UPDATE == "UPDATE"

\* flags & F
Flag(flags, F) == F \in flags

\* flags | F
WithFlag(flags, F) == flags \cup {F}

\* gomp_create_target_task: the task scheduler takes the work; the calling
\* thread does none of it.
gomp_create_target_task(m, a, flags, depend) ==
  Log(m, Ev("create_target_task", flags, a.mapnum, 0))

\* gomp_task_maybe_wait_for_dependencies: the calling thread waits; the
\* device is not touched.
gomp_task_maybe_wait_for_dependencies(m, depend) == Log(m, Ev("wait_for_dependencies", 0, 0, 0))

\* The calling thread, gomp_thread (): thr->ts.team is set (team), the barrier
\* of the team or the taskgroup of the task is cancelled (cancelled), thr->task
\* is set and has a depend_hash (depend_hash), the task is final (final_task).
\* cancelled is read of a thread of a team only.
GompThreads ==
  {thr \in [team : BOOLEAN, cancelled : BOOLEAN, depend_hash : BOOLEAN, final_task : BOOLEAN] :
     thr.cancelled => thr.team}

\* team && (gomp_team_barrier_cancelled (&team->barrier)
\*          || (thr->task->taskgroup && thr->task->taskgroup->cancelled))
Cancelled(thr) == thr.team /\ thr.cancelled

\* GOMP_target_41: as GOMP_target, after the wait for the depend clauses.
\* flags is not read.
GOMP_target_41(m, thr, device, fn, a, flags, depend) ==
  LET r == resolve_device(m, device)
      m1 == IF depend /\ thr.depend_hash
            THEN gomp_task_maybe_wait_for_dependencies(r[1], depend) ELSE r[1]
      Run(x) == IF Stopped(x[1]) THEN x[1]
                ELSE gomp_unmap_vars(Log(x[1], Ev("run", x[1].tgts[x[2]].tgt_start, 0, 0)),
                                     x[2], TRUE)
  IN IF Stopped(r[1]) THEN {r[1]}
     ELSE IF ~r[2] \/ GOMP_OFFLOAD_CAP_OPENMP_400 \notin capabilities
     THEN {Log(m1, Ev("fallback", 0, 0, 0))}
     ELSE UNION {IF Stopped(f[1]) THEN {f[1]}
                 ELSE {Run(x) : x \in gomp_map_vars(f[1], a)}
                   : f \in gomp_get_target_fn_addr(m1, fn)}

\* The head of GOMP_target_update_41 and of GOMP_target_enter_exit_data:
\* <<machine state, the call goes on to its work>>.  With depend clauses and
\* a task with a depend_hash, NOWAIT in a team and a task that is not final
\* makes a target task; a cancelled team returns; otherwise the thread waits
\* for the dependencies.  Then a device that is not resolved, or a cancelled
\* team, returns.
TaskHead(m, thr, device, a, flags, depend) ==
  LET r == resolve_device(m, device)
      m1 == gomp_task_maybe_wait_for_dependencies(r[1], depend)
  IN IF Stopped(r[1]) THEN <<r[1], FALSE>>
     ELSE IF depend /\ thr.depend_hash /\ Flag(flags, GOMP_TARGET_FLAG_NOWAIT)
             /\ thr.team /\ ~thr.final_task
     THEN <<gomp_create_target_task(r[1], a, flags, depend), FALSE>>
     ELSE IF depend /\ thr.depend_hash /\ Cancelled(thr) THEN <<r[1], FALSE>>
     ELSE IF ~r[2] THEN <<IF depend /\ thr.depend_hash THEN m1 ELSE r[1], FALSE>>
     ELSE IF Cancelled(thr) THEN <<r[1], FALSE>>
     ELSE <<IF depend /\ thr.depend_hash THEN m1 ELSE r[1], TRUE>>

GOMP_target_update_41(m, thr, device, a, flags, depend) ==
  LET h == TaskHead(m, thr, device, a, WithFlag(flags, GOMP_TARGET_FLAG_UPDATE), depend)
  IN IF ~h[2] THEN {h[1]} ELSE gomp_update(h[1], a)

GOMP_target_enter_exit_data_41(m, thr, device, a, flags, depend) ==
  LET h == TaskHead(m, thr, device, a, flags, depend)
  IN IF ~h[2] THEN {h[1]}
     ELSE IF ~Flag(flags, GOMP_TARGET_FLAG_EXIT_DATA) THEN EnterDataLoop({h[1]}, a, 1)
     ELSE gomp_exit_data(h[1], a)

\* omp_target_is_present looking up the degenerate key [ptr, ptr) as it is
omp_target_is_present_exact(m, ptr, device_num) ==
  LET r == resolve_device(m, device_num)
      n == splay_tree_lookup(gomp_mutex_lock(r[1]), Node(ptr, ptr))
  IN IF ptr = 0 THEN <<m, 1>>
     ELSE IF device_num = GOMP_DEVICE_HOST_FALLBACK THEN <<m, 1>>
     ELSE IF device_num < 0 THEN <<m, 0>>
     ELSE IF ~r[2] THEN <<r[1], 0>>
     ELSE <<gomp_mutex_unlock(gomp_mutex_lock(r[1])), IF n /= {NULLKEY} THEN 1 ELSE 0>>

\* omp_target_is_present: <<machine state, result>>
omp_target_is_present(m, ptr, device_num) ==
  LET r == resolve_device(m, device_num)
      n == gomp_map_lookup(gomp_mutex_lock(r[1]), Node(ptr, ptr))
  IN IF ptr = 0 THEN <<m, 1>>
     ELSE IF device_num = GOMP_DEVICE_HOST_FALLBACK THEN <<m, 1>>
     ELSE IF device_num < 0 THEN <<m, 0>>
     ELSE IF ~r[2] THEN <<r[1], 0>>
     ELSE <<gomp_mutex_unlock(gomp_mutex_lock(r[1])), IF n /= {NULLKEY} THEN 1 ELSE 0>>

\* omp_target_associate_ptr inserting its record without a lookup
omp_target_associate_ptr_nolookup(m, host_ptr, device_ptr, size, device_offset, device_num) ==
  LET r == resolve_device(m, device_num)
      m1 == gomp_mutex_lock(r[1])
      cur == Node(host_ptr, Wrap(host_ptr + size))
      t == NewTgt(m1)
      d == [list_count |-> 0, refcount |-> 1, list |-> <<>>,
            array |-> <<[host_start |-> cur.host_start, host_end |-> cur.host_end,
                         tgt |-> t, tgt_offset |-> Wrap(device_ptr + device_offset),
                         refcount |-> REFCOUNT_INFINITY, async_refcount |-> 0]>>,
            tgt_start |-> 0, tgt_end |-> 0, to_free |-> 0]
  IN IF device_num = GOMP_DEVICE_HOST_FALLBACK \/ device_num < 0 THEN {<<m, EINVAL>>}
     ELSE IF ~r[2] THEN {<<r[1], EINVAL>>}
     ELSE {<<gomp_mutex_unlock(splay_tree_insert(AddTgt(m1, t, d), <<t, 1>>)), 0>>}

\* omp_target_associate_ptr: the set of <<machine state, result>>
omp_target_associate_ptr(m, host_ptr, device_ptr, size, device_offset, device_num) ==
  LET r == resolve_device(m, device_num)
      m1 == gomp_mutex_lock(r[1])
      cur == Node(host_ptr, Wrap(host_ptr + size))
      t == NewTgt(m1)
      d == [list_count |-> 0, refcount |-> 1, list |-> <<>>,
            array |-> <<[host_start |-> cur.host_start, host_end |-> cur.host_end,
                         tgt |-> t, tgt_offset |-> Wrap(device_ptr + device_offset),
                         refcount |-> REFCOUNT_INFINITY, async_refcount |-> 0]>>,
            tgt_start |-> 0, tgt_end |-> 0, to_free |-> 0]
  IN IF device_num = GOMP_DEVICE_HOST_FALLBACK \/ device_num < 0 THEN {<<m, EINVAL>>}
     ELSE IF ~r[2] THEN {<<r[1], EINVAL>>}
     ELSE {IF n /= NULLKEY
           THEN <<gomp_mutex_unlock(m1),
                  IF Wrap(m1.tgts[n[1]].tgt_start + Key(m1, n).tgt_offset)
                       = Wrap(device_ptr + device_offset)
                     /\ Key(m1, n).host_start <= cur.host_start
                     /\ Key(m1, n).host_end >= cur.host_end
                  THEN 0 ELSE EINVAL>>
           ELSE <<gomp_mutex_unlock(splay_tree_insert(AddTgt(m1, t, d), <<t, 1>>)), 0>>
             : n \in gomp_map_lookup(m1, cur)}

\* omp_target_disassociate_ptr: the set of <<machine state, result>>
omp_target_disassociate_ptr(m, ptr, device_num) ==
  LET r == resolve_device(m, device_num)
      m1 == gomp_mutex_lock(r[1])
  IN IF device_num = GOMP_DEVICE_HOST_FALLBACK \/ device_num < 0 THEN {<<m, EINVAL>>}
     ELSE IF ~r[2] THEN {<<r[1], EINVAL>>}
     ELSE {IF n /= NULLKEY
              /\ Key(m1, n).host_start = ptr
              /\ Key(m1, n).refcount = REFCOUNT_INFINITY
              /\ m1.tgts[n[1]].tgt_start = 0
              /\ m1.tgts[n[1]].to_free = 0
              /\ m1.tgts[n[1]].refcount = 1
              /\ m1.tgts[n[1]].list_count = 0
           THEN <<gomp_mutex_unlock(gomp_unmap_tgt(splay_tree_remove(m1, n), n[1])), 0>>
           ELSE <<gomp_mutex_unlock(m1), EINVAL>>
             : n \in gomp_map_lookup(m1, Node(ptr, ptr))}

----------------------------------------------------------------------------
(* The state machine                                                       *)

\* Bounds of the exploration.
\* The descriptors that callers of gomp_map_vars hold at the same time.
MaxHeld == 1

\* The same, where the regions of an exploration nest.
MaxNest == 2

\* The descriptors that enter-data calls have left behind.
MaxEntered == 2

\* The refcount a record of the index reaches before no more mappings are made.
MaxRefcount == 2

\* The async_refcount a record reaches, and the number of times
\* gomp_copy_from_async takes a reference from a pinned record.
MaxAsync == 1

\* The threads that call into the library at the same time.
NumThreads == 2

Threads == 1..NumThreads

\* A batch from its clauses cl, a sequence of [addr, size, kind, ptr].
Batch(pragma, short_mapkind, cl) ==
  [mapnum |-> Len(cl),
   hostaddrs |-> [j \in 1..Len(cl) |-> cl[j].addr],
   sizes |-> [j \in 1..Len(cl) |-> cl[j].size],
   kinds |-> [j \in 1..Len(cl) |-> cl[j].kind],
   ptrs |-> [j \in 1..Len(cl) |-> cl[j].ptr],
   short |-> short_mapkind, pragma |-> pragma, devaddrs |-> 0]

\* One clause with alignment 1; ptr is the pointer stored at addr.
Clause(addr, size, name) == [addr |-> addr, size |-> size, kind |-> GOMP_MAP(name), ptr |-> 0]

\* The machine state of the current state, with an empty log.
M == [tgts |-> tgts, mem_map |-> mem_map, lock |-> lock, status |-> status,
      blocks |-> blocks, log |-> <<>>, is_initialized |-> is_initialized,
      register_lock |-> register_lock, offload_images |-> offload_images,
      unlocked |-> unlocked]

\* The step to machine state m.  A traced step keeps the arguments and the
\* result of the call in call and its plugin calls in log; an untraced one
\* keeps the machine state only.
Becomes(m, h, c, traced) ==
  /\ tgts' = m.tgts
  /\ mem_map' = m.mem_map
  /\ lock' = m.lock
  /\ status' = m.status
  /\ blocks' = m.blocks
  /\ log' = IF traced THEN m.log ELSE << >>
  /\ is_initialized' = m.is_initialized
  /\ register_lock' = m.register_lock
  /\ offload_images' = m.offload_images
  /\ held' = h
  /\ call' = IF traced THEN c ELSE [op |-> "none"]
  /\ unlocked' = m.unlocked
  /\ UNCHANGED <<pc, lock_owner, register_owner, target_data, regions>>

\* The finite refcounts of the records of the index.
Refcounts(m) ==
  {Key(m, k).refcount : k \in {x \in m.mem_map : Key(m, x).refcount < UWORD \div 2}}

Asyncs(m) == {Key(m, k).async_refcount : k \in m.mem_map}

RefRoom == \A r \in Refcounts(M) : r < MaxRefcount

\* The descriptors that enter-data calls have left behind.
Entered == {t \in (DOMAIN tgts) \ held : tgts[t].list_count > 0}

\* The program runs, and no pinned refcount has drifted out of the explored range.
Running ==
  /\ status = "running"
  /\ \A k \in mem_map : \/ Key(M, k).refcount <= MaxRefcount
                         \/ Key(M, k).refcount >= REFCOUNT_INFINITY - MaxAsync

Init ==
  /\ tgts = << >>
  /\ mem_map = {}
  /\ lock = FALSE
  /\ is_initialized = FALSE
  /\ register_lock = FALSE
  /\ offload_images = << >>
  /\ status = "running"
  /\ blocks = {}
  /\ log = << >>
  /\ held = {}
  /\ call = [op |-> "none"]
  /\ unlocked = FALSE
  /\ pc = [self \in Threads |-> [at |-> "idle"]]
  /\ lock_owner = 0
  /\ register_owner = 0
  /\ target_data = << >>
  /\ regions = << >>

\* A caller (GOMP_target, GOMP_target_data, ...) resolves the device, calls
\* gomp_map_vars and keeps the descriptor it returns.
MapVars(a, n, traced) ==
  /\ Running /\ RefRoom /\ Cardinality(held) < n
  /\ resolve_device(M, 0)[2]
  /\ \E r \in gomp_map_vars(resolve_device(M, 0)[1], a) :
       Becomes(r[1], IF r[2] /= 0 THEN held \cup {r[2]} ELSE held,
               [op |-> "gomp_map_vars", a |-> a, t |-> r[2]], traced)

UnmapVars(t, do_copyfrom, traced) ==
  /\ Running /\ t \in held
  /\ Becomes(gomp_unmap_vars(M, t, do_copyfrom), held \ {t},
             [op |-> "gomp_unmap_vars", t |-> t, do_copyfrom |-> do_copyfrom], traced)

CopyFromAsync(t, traced) ==
  /\ Running /\ t \in held
  /\ \A n \in Asyncs(M) : n < MaxAsync
  /\ Becomes(gomp_copy_from_async(M, t), held, [op |-> "gomp_copy_from_async", t |-> t], traced)

EnterData(a, traced) ==
  /\ Running /\ RefRoom /\ Cardinality(Entered) < MaxEntered
  /\ \E m \in GOMP_target_enter_exit_data(M, 0, a, FALSE) :
       Becomes(m, held, [op |-> "enter_data", a |-> a], traced)

ExitData(a, traced) ==
  /\ Running
  /\ \E m \in GOMP_target_enter_exit_data(M, 0, a, TRUE) :
       Becomes(m, held, [op |-> "exit_data", a |-> a], traced)

IsPresent(ptr, traced) ==
  /\ Running
  /\ LET r == omp_target_is_present(M, ptr, 0)
     IN Becomes(r[1], held, [op |-> "omp_target_is_present", ptr |-> ptr, ret |-> r[2]], traced)

\* A launch: GOMP_target from the call to its return.
Target(fn, a, traced) ==
  /\ Running
  /\ \E m \in GOMP_target(M, 0, fn, a) :
       Becomes(m, held, [op |-> "GOMP_target", a |-> a], traced)

\* GOMP_target_update_41: resolve the device, then gomp_update
Update(a, traced) ==
  /\ Running
  /\ resolve_device(M, 0)[2]
  /\ \E m \in gomp_update(resolve_device(M, 0)[1], a) :
       Becomes(m, held, [op |-> "gomp_update", a |-> a], traced)

\* GOMP_target called by thread thr
TargetIn(thr, fn, a, traced) ==
  /\ Running
  /\ \E m \in GOMP_target(M, 0, fn, a) :
       Becomes(m, held, [op |-> "GOMP_target", thr |-> thr, a |-> a], traced)

\* GOMP_target_41 called by thread thr
Target41(thr, fn, a, flags, depend, traced) ==
  /\ Running
  /\ \E m \in GOMP_target_41(M, thr, 0, fn, a, flags, depend) :
       Becomes(m, held, [op |-> "GOMP_target_41", thr |-> thr, a |-> a,
                         flags |-> flags, depend |-> depend], traced)

\* GOMP_target_update_41 called by thread thr
Update41(thr, a, flags, depend, traced) ==
  /\ Running
  /\ \E m \in GOMP_target_update_41(M, thr, 0, a, flags, depend) :
       Becomes(m, held, [op |-> "GOMP_target_update_41", thr |-> thr, a |-> a,
                         flags |-> flags, depend |-> depend], traced)

\* GOMP_target_enter_exit_data called by thread thr
EnterExitData41(thr, a, flags, depend, traced) ==
  /\ Running /\ RefRoom /\ Cardinality(Entered) < MaxEntered
  /\ \E m \in GOMP_target_enter_exit_data_41(M, thr, 0, a, flags, depend) :
       Becomes(m, held, [op |-> "GOMP_target_enter_exit_data", thr |-> thr, a |-> a,
                         flags |-> flags, depend |-> depend], traced)

\* The entry points called by a thread in state thr for device
TargetOn(device, thr, gomp_places_list, fn, a, traced) ==
  /\ Running
  /\ \E m \in GOMP_target(M, device, fn, a) :
       Becomes(m, held, [op |-> "GOMP_target", device |-> device, thr |-> thr,
                         ret_thr |-> RunAround(thr, gomp_places_list).thr], traced)

Target41On(device, thr, gomp_places_list, fn, a, traced) ==
  /\ Running
  /\ \E m \in GOMP_target_41(M, [team |-> thr.team, cancelled |-> FALSE, depend_hash |-> FALSE,
                                 final_task |-> FALSE], device, fn, a, {}, FALSE) :
       Becomes(m, held, [op |-> "GOMP_target_41", device |-> device, thr |-> thr,
                         ret_thr |-> RunAround(thr, gomp_places_list).thr], traced)

UpdateOn(device, a, traced) ==
  /\ Running
  /\ \E m \in GOMP_target_update(M, device, a) :
       Becomes(m, held, [op |-> "GOMP_target_update", device |-> device], traced)

EnterExitDataOn(device, a, exit_data, traced) ==
  /\ Running /\ RefRoom /\ Cardinality(Entered) < MaxEntered
  /\ \E m \in GOMP_target_enter_exit_data(M, device, a, exit_data) :
       Becomes(m, held, [op |-> "GOMP_target_enter_exit_data", device |-> device], traced)

\* splay_compare applied to the keys x and y
Compare(x, y) ==
  /\ Running
  /\ Becomes(M, held, [op |-> "splay_compare", x |-> x, y |-> y, ret |-> splay_compare(x, y)],
             TRUE)

\* gomp_map_lookup applied to the index and the key [a, a + size)
MapLookup(a, size) ==
  /\ Running
  /\ \E n \in gomp_map_lookup(M, Node(a, Wrap(a + size))) :
       Becomes(M, held, [op |-> "gomp_map_lookup", key |-> Node(a, Wrap(a + size)),
                         ret |-> n], TRUE)

\* The host ranges of an image's symbols.
ImageRanges(image) ==
  {Node(image.funcs[j], Wrap(image.funcs[j] + 1)) : j \in 1..Len(image.funcs)}
    \cup {Node(image.vars[j].addr, Wrap(image.vars[j].addr + image.vars[j].size))
            : j \in 1..Len(image.vars)}

\* [hs, he) meets no record of the index.
Unmapped(hs, he) ==
  \A k \in mem_map : Key(M, k).host_end <= hs \/ he <= Key(M, k).host_start

\* An image is registered once, and its symbols are objects of their own: no
\* record of the index lies on them.
Register(image, traced) ==
  /\ Running
  /\ \A j \in 1..Len(offload_images) : offload_images[j] /= image
  /\ \A r \in ImageRanges(image) : Unmapped(r.host_start, r.host_end)
  /\ Becomes(GOMP_offload_register_ver(M, image), held,
             [op |-> "GOMP_offload_register_ver", image |-> image], traced)

\* An image is unregistered by the library that registered it.
Unregister(image, traced) ==
  /\ Running
  /\ \E j \in 1..Len(offload_images) : offload_images[j] = image
  /\ \E m \in GOMP_offload_unregister_ver(M, image) :
       Becomes(m, held, [op |-> "GOMP_offload_unregister_ver", image |-> image], traced)

AssociatePtr(host_ptr, device_ptr, size, traced) ==
  /\ Running
  /\ \E r \in omp_target_associate_ptr(M, host_ptr, device_ptr, size, 0, 0) :
       Becomes(r[1], held, [op |-> "omp_target_associate_ptr", ptr |-> host_ptr,
                            ret |-> r[2]], traced)

DisassociatePtr(ptr, traced) ==
  /\ Running
  /\ \E r \in omp_target_disassociate_ptr(M, ptr, 0) :
       Becomes(r[1], held, [op |-> "omp_target_disassociate_ptr", ptr |-> ptr,
                            ret |-> r[2]], traced)

\* omp_target_associate_ptr and omp_target_disassociate_ptr for device
AssociateOn(device, host_ptr, device_ptr, size, device_offset, traced) ==
  /\ Running
  /\ \E r \in omp_target_associate_ptr(M, host_ptr, device_ptr, size, device_offset, device) :
       Becomes(r[1], held, [op |-> "omp_target_associate_ptr", device |-> device,
                            ptr |-> host_ptr, size |-> size, device_ptr |-> device_ptr,
                            device_offset |-> device_offset, ret |-> r[2]], traced)

DisassociateOn(device, ptr, traced) ==
  /\ Running
  /\ \E r \in omp_target_disassociate_ptr(M, ptr, device) :
       Becomes(r[1], held, [op |-> "omp_target_disassociate_ptr", device |-> device,
                            ptr |-> ptr, ret |-> r[2]], traced)

----------------------------------------------------------------------------
(* Threads: resolve_device, registration and unregistration step by step   *)

\* The machine state as thread self has it: the locks are those it holds
\* itself, the log is the one kept so far.
View(self) ==
  [M EXCEPT !.lock = (lock_owner = self), !.register_lock = (register_owner = self),
            !.log = log]

\* The plugin calls that are kept from one step of a thread to the next.
Kept(l) == SelectSeq(l, LAMBDA e : e.ev = "init_device")

Idle == [at |-> "idle"]

\* Thread self steps to machine state m and goes on at p.
Does(self, m, p) ==
  /\ tgts' = m.tgts
  /\ mem_map' = m.mem_map
  /\ status' = m.status
  /\ blocks' = m.blocks
  /\ log' = Kept(m.log)
  /\ is_initialized' = m.is_initialized
  /\ offload_images' = m.offload_images
  /\ unlocked' = m.unlocked
  /\ lock_owner' = IF m.lock THEN self ELSE IF lock_owner = self THEN 0 ELSE lock_owner
  /\ register_owner' = IF m.register_lock THEN self
                       ELSE IF register_owner = self THEN 0 ELSE register_owner
  /\ lock' = (lock_owner' /= 0)
  /\ register_lock' = (register_owner' /= 0)
  /\ pc' = [pc EXCEPT ![self] = p]
  /\ call' = [op |-> "none"]
  /\ UNCHANGED <<held, target_data, regions>>

\* Another thread is about to write offload_images and num_offload_images,
\* which it does under register_lock only.
WritesImages(self) ==
  \E o \in Threads \ {self} : pc[o].at \in {"register_append", "unregister_remove"}

\* Some thread is inside a registration or an unregistration.
Registering ==
  \E o \in Threads : pc[o].at \notin {"idle", "resolve_lock", "resolve_test", "init_loop",
                                      "resolve_unlock"}

\* resolve_device is called with a valid device_id.
ResolveCall(self, device_id) ==
  /\ Running /\ pc[self] = Idle
  /\ LET id == IF device_id = GOMP_DEVICE_ICV THEN default_device_var ELSE device_id
     IN ~(id < 0 \/ id >= num_devices_openmp)
  /\ Does(self, View(self), [at |-> "resolve_lock"])

\* gomp_mutex_lock (&devices[device_id].lock) that does not wait for the lock
ResolveLock_nowait(self) ==
  /\ Running /\ pc[self].at = "resolve_lock"
  /\ Does(self, [View(self) EXCEPT !.lock = FALSE], [at |-> "resolve_test"])

\* gomp_mutex_lock (&devices[device_id].lock)
ResolveLock(self) ==
  /\ Running /\ pc[self].at = "resolve_lock"
  /\ lock_owner = 0
  /\ Does(self, gomp_mutex_lock(View(self)), [at |-> "resolve_test"])

\* if (!devices[device_id].is_initialized), and the init_device_func call of
\* gomp_init_device
ResolveTest(self) ==
  /\ Running /\ pc[self].at = "resolve_test"
  /\ IF ~is_initialized
     THEN Does(self, Log(View(self), Ev("init_device", 0, 0, 0)), [at |-> "init_loop", i |-> 1])
     ELSE Does(self, View(self), [at |-> "resolve_unlock"])

\* One iteration of the loop of gomp_init_device, or its end.  The loop reads
\* num_offload_images and offload_images without register_lock.
InitLoop(self) ==
  /\ Running /\ pc[self].at = "init_loop"
  /\ LET i == pc[self].i
         m == View(self)
     IN \/ /\ i <= Len(offload_images)
           /\ Does(self,
                   IF offload_images[i].type = DeviceType
                   THEN gomp_load_image_to_device(m, offload_images[i], FALSE)
                   ELSE m,
                   [at |-> "init_loop", i |-> i + 1])
        \/ /\ i > Len(offload_images)
           /\ Does(self, [m EXCEPT !.is_initialized = TRUE], [at |-> "resolve_unlock"])
        \/ /\ WritesImages(self)
           /\ Does(self, UndefinedBehaviour(m), pc[self])

\* gomp_mutex_unlock (&devices[device_id].lock); return &devices[device_id]
ResolveUnlock(self) ==
  /\ Running /\ pc[self].at = "resolve_unlock"
  /\ Does(self, gomp_mutex_unlock(View(self)), Idle)

\* No other thread is registering or unregistering the image.
NotInHand(self, image) ==
  \A o \in Threads \ {self} : "image" \in DOMAIN pc[o] => pc[o].image /= image

\* GOMP_offload_register_ver is called for an image that is not registered.
RegisterCall(self, image) ==
  /\ Running /\ pc[self] = Idle
  /\ \A j \in 1..Len(offload_images) : offload_images[j] /= image
  /\ NotInHand(self, image)
  /\ \A r \in ImageRanges(image) : Unmapped(r.host_start, r.host_end)
  /\ IF GOMP_VERSION_LIB(image.version) > GOMP_VERSION
     THEN Does(self, gomp_fatal(View(self)), Idle)
     ELSE Does(self, View(self), [at |-> "register_lock", image |-> image])

\* gomp_mutex_lock (&register_lock)
RegisterLock(self) ==
  /\ Running /\ pc[self].at = "register_lock"
  /\ register_owner = 0
  /\ Does(self, [View(self) EXCEPT !.register_lock = TRUE],
          [pc[self] EXCEPT !.at = "register_device"])

\* gomp_mutex_lock (&devicep->lock)
RegisterDevice(self) ==
  /\ Running /\ pc[self].at = "register_device"
  /\ lock_owner = 0
  /\ Does(self, gomp_mutex_lock(View(self)), [pc[self] EXCEPT !.at = "register_load"])

\* The load on the initialized device, without the gomp_mutex_unlock after it
RegisterLoad_keeps_lock(self) ==
  /\ Running /\ pc[self].at = "register_load"
  /\ LET m == View(self)
     IN Does(self, IF DeviceType = pc[self].image.type /\ m.is_initialized
                   THEN gomp_load_image_to_device(m, pc[self].image, TRUE)
                   ELSE m,
             [pc[self] EXCEPT !.at = "register_append"])

\* The load on the initialized device and gomp_mutex_unlock (&devicep->lock)
RegisterLoad(self) ==
  /\ Running /\ pc[self].at = "register_load"
  /\ LET m == View(self)
         m1 == IF DeviceType = pc[self].image.type /\ m.is_initialized
               THEN gomp_load_image_to_device(m, pc[self].image, TRUE)
               ELSE m
     IN Does(self, IF Stopped(m1) THEN m1 ELSE gomp_mutex_unlock(m1),
             [pc[self] EXCEPT !.at = "register_append"])

\* offload_images[num_offload_images] = ...; num_offload_images++
RegisterAppend(self) ==
  /\ Running /\ pc[self].at = "register_append"
  /\ Does(self, [View(self) EXCEPT !.offload_images = Append(@, pc[self].image)],
          [pc[self] EXCEPT !.at = "register_unlock"])

\* gomp_mutex_unlock (&register_lock)
RegisterUnlock(self) ==
  /\ Running /\ pc[self].at = "register_unlock"
  /\ Does(self, [View(self) EXCEPT !.register_lock = FALSE], Idle)

\* GOMP_offload_unregister_ver is called for a registered image.
UnregisterCall(self, image) ==
  /\ Running /\ pc[self] = Idle
  /\ \E j \in 1..Len(offload_images) : offload_images[j] = image
  /\ NotInHand(self, image)
  /\ Does(self, View(self), [at |-> "unregister_lock", image |-> image])

\* gomp_mutex_lock (&register_lock)
UnregisterLock(self) ==
  /\ Running /\ pc[self].at = "unregister_lock"
  /\ register_owner = 0
  /\ Does(self, [View(self) EXCEPT !.register_lock = TRUE],
          [pc[self] EXCEPT !.at = "unregister_device"])

\* gomp_mutex_lock (&devicep->lock)
UnregisterDevice(self) ==
  /\ Running /\ pc[self].at = "unregister_device"
  /\ lock_owner = 0
  /\ Does(self, gomp_mutex_lock(View(self)), [pc[self] EXCEPT !.at = "unregister_unload"])

\* The unload from the initialized device and gomp_mutex_unlock (&devicep->lock)
UnregisterUnload(self) ==
  /\ Running /\ pc[self].at = "unregister_unload"
  /\ LET m == View(self)
     IN \E m1 \in IF DeviceType = pc[self].image.type /\ m.is_initialized
                  THEN gomp_unload_image_from_device(m, pc[self].image)
                  ELSE {m} :
          Does(self, IF Stopped(m1) THEN m1 ELSE gomp_mutex_unlock(m1),
               [pc[self] EXCEPT !.at = "unregister_remove"])

\* The removal of the image from offload_images
UnregisterRemove(self) ==
  /\ Running /\ pc[self].at = "unregister_remove"
  /\ Does(self, [View(self) EXCEPT !.offload_images = RemoveImage(@, pc[self].image)],
          [pc[self] EXCEPT !.at = "unregister_unlock"])

\* gomp_mutex_unlock (&register_lock)
UnregisterUnlock(self) ==
  /\ Running /\ pc[self].at = "unregister_unlock"
  /\ Does(self, [View(self) EXCEPT !.register_lock = FALSE], Idle)

\* The steps of the resolve_device call of thread self.
Resolve(self) ==
  \/ ResolveLock(self)
  \/ ResolveTest(self)
  \/ InitLoop(self)
  \/ ResolveUnlock(self)

\* The steps of the registration and of the unregistration of thread self.
Registration(self) ==
  \/ RegisterLock(self)
  \/ RegisterDevice(self)
  \/ RegisterLoad(self)
  \/ RegisterAppend(self)
  \/ RegisterUnlock(self)
  \/ UnregisterLock(self)
  \/ UnregisterDevice(self)
  \/ UnregisterUnload(self)
  \/ UnregisterRemove(self)
  \/ UnregisterUnlock(self)

----------------------------------------------------------------------------
(* The host objects and the batches of the exploration                     *)

A_START == 2 * PTR_SIZE

A_SIZE == 2 * PTR_SIZE

B_START == 6 * PTR_SIZE

P_START == 8 * PTR_SIZE

S_START == 10 * PTR_SIZE

F_START == 16 * PTR_SIZE

V_START == 17 * PTR_SIZE

H_START == 20 * PTR_SIZE

D_START == 512 * PTR_SIZE

ClA(name) == Clause(A_START, A_SIZE, name)

ClInner(name) == Clause(A_START + 4, 4, name)

ClPartial(name) == Clause(A_START + 8, A_SIZE, name)

ClB(name) == Clause(B_START, 8, name)

ClV(name) == Clause(V_START, 8, name)

\* a struct at S_START with two fields mapped
StructS == <<Clause(S_START, 2, "STRUCT"), Clause(S_START + 4, 4, "TO"),
             Clause(S_START + 8, 4, "TOFROM")>>

\* a pointer set at P_START holding one pointer into A, followed by that pointer
PsetP == <<Clause(P_START, 16, "TO_PSET"),
           [addr |-> P_START + 8, size |-> 0, kind |-> GOMP_MAP("POINTER"),
            ptr |-> A_START + 4]>>

Image1 ==
  [version |-> 0, type |-> DeviceType, funcs |-> <<F_START>>,
   vars |-> <<[addr |-> V_START, size |-> 8]>>,
   target |-> <<[start |-> D_START, end |-> D_START + 1],
                [start |-> D_START + 8, end |-> D_START + 16]>>]

Batches ==
  {Batch("DATA", TRUE, <<ClA("TOFROM")>>),
   Batch("DATA", TRUE, StructS),
   Batch("TARGET", TRUE, PsetP)}

EnterBatches ==
  {Batch("ENTER_DATA", TRUE, <<ClA("TO")>>)}

ExitBatches ==
  {Batch("ENTER_DATA", TRUE, <<ClA("FROM")>>),
   Batch("ENTER_DATA", TRUE, <<ClA("DELETE")>>)}

UpdateBatches ==
  {Batch("DATA", TRUE, <<ClInner("TO")>>)}

Next ==
  \/ \E a \in Batches : MapVars(a, MaxHeld, FALSE)
  \/ \E t \in held : UnmapVars(t, TRUE, FALSE)
  \/ \E t \in held : CopyFromAsync(t, FALSE)
  \/ \E a \in EnterBatches : EnterData(a, FALSE)
  \/ \E a \in ExitBatches : ExitData(a, FALSE)
  \/ Register(Image1, FALSE)
  \/ AssociatePtr(A_START, D_START + 64, A_SIZE, FALSE)
  \/ DisassociatePtr(A_START, FALSE)

Spec == Init /\ [][Next]_vars

\* The index holds records of live descriptors only.
IndexLive == status = "running" => \A k \in mem_map : k[1] \in DOMAIN tgts

----------------------------------------------------------------------------
(* Map / unmap pairs on disjoint host ranges                               *)

\* Batches whose clauses lie on pairwise disjoint host ranges: one object, a
\* GOMP_target launch with the 8-bit kinds, a struct with two fields, an empty
\* launch, a firstprivate with an allocation, a zero-sized section.
DisjointBatches ==
  {Batch("DATA", TRUE, <<ClA("TOFROM")>>),
   Batch("TARGET", FALSE, <<ClB("TOFROM")>>),
   Batch("DATA", TRUE, StructS),
   Batch("TARGET", FALSE, << >>),
   Batch("TARGET", TRUE, <<Clause(P_START, 4, "FIRSTPRIVATE"),
                           Clause(P_START + 8, 8, "ALLOC")>>),
   Batch("DATA", TRUE, <<Clause(H_START, 0, "TO")>>)}

\* No clause of the batch meets a range that is mapped now.
Disjoint(a) ==
  \A i \in 1..a.mapnum : Unmapped(a.hostaddrs[i], a.hostaddrs[i] + a.sizes[i])

NextDisjoint ==
  \/ \E a \in DisjointBatches : Disjoint(a) /\ MapVars(a, MaxNest, TRUE)
  \/ \E t \in held, do_copyfrom \in BOOLEAN : UnmapVars(t, do_copyfrom, TRUE)

SpecDisjoint == Init /\ [][NextDisjoint]_vars

\* C1: from an empty index, when every gomp_map_vars call on pairwise disjoint
\* host ranges has been matched by the gomp_unmap_vars of the descriptor it
\* returned, the index is empty, every block alloc_func returned has gone to
\* free_func, and no descriptor is left.
C1_DisjointPairsLeaveNothing ==
  (status = "running" /\ held = {}) =>
     (mem_map = {} /\ blocks = {} /\ DOMAIN tgts = {})

\* the last unmap of a sequence removed a record and freed a block
C1_Witness ==
  /\ status = "running" /\ held = {}
  /\ call.op = "gomp_unmap_vars"
  /\ \E j \in 1..Len(log) : log[j].ev = "free"
  /\ \E j \in 1..Len(log) : log[j].ev = "remove"

----------------------------------------------------------------------------
(* gomp_map_vars batch by batch                                            *)

\* Batches with a GOMP_MAP_FORCE_PRESENT clause, and the mappings they meet.
PresentBatches ==
  {Batch("DATA", TRUE, <<ClA("TOFROM")>>),
   Batch("DATA", TRUE, <<ClB("FORCE_PRESENT")>>),
   Batch("DATA", TRUE, <<ClA("FORCE_PRESENT")>>),
   Batch("TARGET", FALSE, <<ClInner("TO"), ClB("FORCE_PRESENT")>>),
   Batch("TARGET", TRUE, <<ClB("TO"), ClInner("FORCE_PRESENT")>>)}

NextPresent ==
  \/ \E a \in PresentBatches : MapVars(a, MaxNest, TRUE)
  \/ \E t \in held, do_copyfrom \in BOOLEAN : UnmapVars(t, do_copyfrom, TRUE)

SpecPresent == Init /\ [][NextPresent]_vars

\* the event ev is in the log l
Logged(l, ev) == \E j \in 1..Len(l) : l[j].ev = ev

\* The host range of clause i of batch a, as pass 1 looks it up.
ClauseRange(a, i) ==
  LET typ == KindType(a.kinds[i], a.short)
  IN IF typ = GOMP_MAP("STRUCT")
     THEN Node(a.hostaddrs[i], a.hostaddrs[i + a.sizes[i]] + a.sizes[i + a.sizes[i]])
     ELSE IF typ = GOMP_MAP("POINTER") THEN Node(a.hostaddrs[i], a.hostaddrs[i] + PTR_SIZE)
     ELSE Node(a.hostaddrs[i], a.hostaddrs[i] + a.sizes[i])

\* The two ranges share a byte.
Overlap(x, y) == x.host_start < y.host_end /\ y.host_start < x.host_end

Contains(x, y) == x.host_start <= y.host_start /\ y.host_end <= x.host_end

\* Some record of the index partially overlaps r: neither holds the other.
PartlyMapped(r) ==
  \E k \in mem_map : /\ Overlap(Key(M, k), r)
                     /\ ~Contains(Key(M, k), r)
                     /\ ~Contains(r, Key(M, k))

----------------------------------------------------------------------------
(* Partial overlaps                                                        *)

\* A mapping of A, and batches with a clause that overlaps A partly, from
\* above or from below: looked-up kinds, a firstprivate and a struct whose
\* one field lies inside A.
OverlapBatches ==
  {Batch("DATA", TRUE, <<ClA("TOFROM")>>),
   Batch("DATA", TRUE, <<ClPartial("TO")>>),
   Batch("TARGET", FALSE, <<Clause(A_START - 8, A_SIZE, "ALLOC")>>),
   Batch("DATA", TRUE, <<ClB("TO"), ClPartial("FROM")>>),
   Batch("TARGET", TRUE, <<ClPartial("FIRSTPRIVATE")>>),
   Batch("DATA", TRUE, <<Clause(A_START - 8, 1, "STRUCT"), Clause(A_START + 8, 4, "TO")>>)}

OverlapEnterBatches ==
  {Batch("ENTER_DATA", TRUE, <<ClA("TO")>>),
   Batch("ENTER_DATA", TRUE, <<ClPartial("ALLOC")>>)}

NextOverlap ==
  \/ \E a \in OverlapBatches : MapVars(a, MaxHeld, TRUE)
  \/ \E t \in held, do_copyfrom \in BOOLEAN : UnmapVars(t, do_copyfrom, TRUE)
  \/ \E a \in OverlapEnterBatches : EnterData(a, TRUE)

SpecOverlap == Init /\ [][NextOverlap]_vars

\* The kinds whose clause is mapped as its own range [hostaddr, hostaddr + size).
RangeKind(typ) ==
  typ \notin {GOMP_MAP("FIRSTPRIVATE"), GOMP_MAP("FIRSTPRIVATE_INT"),
              GOMP_MAP("USE_DEVICE_PTR"), GOMP_MAP("STRUCT")}

\* C3 as stated: whatever the kind and the pragma, a call with a clause whose
\* range partly overlaps a mapped record (neither holds the other) is fatal.
C3_AnyKindOverlapFatal ==
  [][(/\ call'.op \in {"gomp_map_vars", "enter_data"}
      /\ \E i \in 1..call'.a.mapnum : PartlyMapped(ClauseRange(call'.a, i)))
     => status' = "fatal"]_vars

\* C3, amended: whatever the pragma, a call with a clause of a kind that is
\* mapped as its own range (any kind but FIRSTPRIVATE, FIRSTPRIVATE_INT,
\* USE_DEVICE_PTR and STRUCT), whose range partly overlaps a mapped record, is
\* fatal and returns no descriptor.
C3_RangeKindOverlapFatal ==
  [][(/\ call'.op \in {"gomp_map_vars", "enter_data"}
      /\ \E i \in 1..call'.a.mapnum :
           /\ RangeKind(KindType(call'.a.kinds[i], call'.a.short))
           /\ PartlyMapped(ClauseRange(call'.a, i)))
     => status' = "fatal"]_vars

\* a call with a partly overlapping clause of such a kind has ended in gomp_fatal
C3_Witness ==
  /\ call.op \in {"gomp_map_vars", "enter_data"}
  /\ status = "fatal"
  /\ \E i \in 1..call.a.mapnum :
       /\ RangeKind(KindType(call.a.kinds[i], call.a.short))
       /\ PartlyMapped(ClauseRange(call.a, i))

----------------------------------------------------------------------------
(* Nested mappings                                                         *)

\* Mappings of A by a data region and by a launch, and batches whose clauses
\* lie strictly inside A.
NestedBatches ==
  {Batch("DATA", TRUE, <<ClA("TOFROM")>>),
   Batch("TARGET", FALSE, <<ClA("TOFROM")>>),
   Batch("DATA", TRUE, <<ClInner("TOFROM")>>),
   Batch("DATA", TRUE, <<ClInner("ALWAYS_TOFROM")>>),
   Batch("TARGET", TRUE, <<ClInner("TOFROM")>>),
   Batch("DATA", TRUE, <<ClInner("FORCE_TO")>>),
   Batch("DATA", TRUE, <<ClInner("TO"), Clause(A_START + 8, 4, "FROM")>>)}

NextNested ==
  \/ \E a \in NestedBatches : MapVars(a, MaxNest, TRUE)
  \/ \E t \in held, do_copyfrom \in BOOLEAN : UnmapVars(t, do_copyfrom, TRUE)

SpecNested == Init /\ [][NextNested]_vars

\* The records of open regions that hold the range r strictly.
Outer(r) ==
  {k \in mem_map : k[1] \in held /\ Contains(Key(M, k), r) /\ Key(M, k) /= r}

\* Every clause of the batch lies strictly inside a record of an open region.
InnerBatch(a) ==
  /\ a.mapnum > 0
  /\ \A i \in 1..a.mapnum :
       /\ RangeKind(KindType(a.kinds[i], a.short))
       /\ Outer(ClauseRange(a, i)) /= {}

\* Descriptor t is an inner mapping: each of its slots points into a larger
\* record that another, still open, region owns.
InnerTgt(t) ==
  /\ t \in DOMAIN tgts
  /\ tgts[t].list_count > 0
  /\ \A i \in 1..tgts[t].list_count :
       LET k == tgts[t].list[i].key
       IN /\ k /= NULLKEY /\ k[1] /= t /\ k[1] \in held /\ k \in mem_map
          /\ tgts[t].list[i].length < Key(M, k).host_end - Key(M, k).host_start

\* C2 as stated: an inner gomp_map_vars inserts no record and does not call
\* alloc_func; the inner gomp_unmap_vars issues no dev2host copy, removes no
\* record and calls free_func on nothing.
C2_InnerNoAllocNoCopyNoFree ==
  [][/\ (call'.op = "gomp_map_vars" /\ InnerBatch(call'.a))
          => (~Logged(log', "insert") /\ ~Logged(log', "alloc"))
     /\ (call'.op = "gomp_unmap_vars" /\ InnerTgt(call'.t))
          => (~Logged(log', "dev2host") /\ ~Logged(log', "remove")
              /\ ~Logged(log', "free"))]_vars

\* C2, amended: an inner gomp_map_vars resolves through gomp_map_vars_existing
\* (each slot of a returned descriptor points to the outer record) and inserts
\* no record; it calls alloc_func only if its pragma kind is TARGET.  The inner
\* gomp_unmap_vars removes no record, issues a dev2host copy only for a slot
\* mapped with an always-from kind, and calls free_func only on the block that
\* a TARGET inner mapping allocated.
C2_InnerResolvesExisting ==
  [][/\ (call'.op = "gomp_map_vars" /\ InnerBatch(call'.a))
          => /\ ~Logged(log', "insert")
             /\ Logged(log', "alloc") => call'.a.pragma = "TARGET"
             /\ call'.t /= 0 =>
                  \A i \in 1..call'.a.mapnum :
                    tgts'[call'.t].list[i].key \in Outer(ClauseRange(call'.a, i))
     /\ (call'.op = "gomp_unmap_vars" /\ InnerTgt(call'.t))
          => /\ ~Logged(log', "remove")
             /\ Logged(log', "dev2host") =>
                  \E i \in 1..tgts[call'.t].list_count :
                    tgts[call'.t].list[i].always_copy_from
             /\ \A j \in 1..Len(log') :
                  log'[j].ev = "free" =>
                    (tgts[call'.t].tgt_end /= 0 /\ log'[j].a = tgts[call'.t].to_free)]_vars

\* an inner mapping made by a data region has been unmapped with copy-back
\* asked for, while its outer record stays in the index with one reference
C2_Witness ==
  /\ call.op = "gomp_unmap_vars" /\ call.do_copyfrom
  /\ status = "running"
  /\ log = << >>
  /\ held /= {}
  /\ \E k \in mem_map : k[1] \in held /\ Key(M, k).refcount = 1

\* The slots of other open regions that point to record k.
NestedSlots(k) ==
  {x \in held \X (1..2) : /\ x[1] /= k[1]
                          /\ x[2] <= tgts[x[1]].list_count
                          /\ tgts[x[1]].list[x[2]].key = k}

\* The record of A, mapped TOFROM by a region that is still open.
OuterA ==
  {k \in mem_map : /\ k[1] \in held
                   /\ Key(M, k).host_start = A_START
                   /\ Key(M, k).host_end = A_START + A_SIZE
                   /\ tgts[k[1]].list_count = 1
                   /\ tgts[k[1]].list[1].key = k
                   /\ tgts[k[1]].list[1].copy_from}

\* The dev2host copies of a log.
Copies(l) == SelectSeq(l, LAMBDA e : e.ev = "dev2host")

\* C26: with A mapped TOFROM by an outer region and a range inside A mapped
\* TOFROM by an inner one, the record of A has refcount 2 while both are open
\* (one more than the slots of inner regions that point to it) and 1 once the
\* inner gomp_unmap_vars is done; the gomp_unmap_vars (tgt, true) of the outer
\* region then issues exactly one dev2host copy, of the whole of A, removes
\* the record and calls free_func on the device block.
C26_NestedContainment ==
  [][/\ \A k \in OuterA : Key(M, k).refcount = 1 + Cardinality(NestedSlots(k))
     /\ \A k \in OuterA :
          /\ (/\ call'.op = "gomp_map_vars"
              /\ call'.a.mapnum = 1 /\ call'.a.kinds[1] = GOMP_MAP("TOFROM")
              /\ InnerBatch(call'.a)
              /\ Key(M, k).refcount = 1)
               => /\ k \in mem_map'
                  /\ tgts'[k[1]].array[k[2]].refcount = 2
                  /\ tgts'[call'.t].list[1].key = k
          /\ (/\ call'.op = "gomp_unmap_vars"
              /\ InnerTgt(call'.t)
              /\ Key(M, k).refcount = 2)
               => /\ k \in mem_map'
                  /\ tgts'[k[1]].array[k[2]].refcount = 1
          /\ (/\ call'.op = "gomp_unmap_vars"
              /\ call'.t = k[1] /\ call'.do_copyfrom
              /\ Key(M, k).refcount = 1)
               => /\ Copies(log') =
                       <<Ev("dev2host", A_START, tgts[k[1]].tgt_start + Key(M, k).tgt_offset,
                            A_SIZE)>>
                  /\ k \notin mem_map'
                  /\ Logged(log', "remove")
                  /\ \E j \in 1..Len(log') : log'[j] = Ev("free", tgts[k[1]].to_free, 0, 0)
                  /\ tgts[k[1]].to_free \notin blocks'
                  /\ k[1] \notin DOMAIN tgts']_vars

\* an inner TOFROM mapping has just been made: both regions are open and the
\* record of A has two references
C26_Witness ==
  /\ call.op = "gomp_map_vars"
  /\ call.a.mapnum = 1 /\ call.a.kinds[1] = GOMP_MAP("TOFROM")
  /\ call.t \in held /\ InnerTgt(call.t)
  /\ \E k \in OuterA : Key(M, k).refcount = 2 /\ tgts[call.t].list[1].key = k

----------------------------------------------------------------------------
(* When gomp_map_vars allocates                                            *)

\* Batches of both pragma kinds with clauses found, not found and never
\* looked up: empty batches, firstprivate-only batches, a zero-length array
\* section, a struct, a batch with one clause found and one not, and a launch
\* whose clause is fatal in the first pass once A is mapped.
AllocBatches ==
  {Batch("DATA", TRUE, <<ClA("TOFROM")>>),
   Batch("TARGET", FALSE, <<ClA("TOFROM")>>),
   Batch("TARGET", FALSE, << >>),
   Batch("DATA", TRUE, << >>),
   Batch("DATA", TRUE, <<Clause(B_START, 4, "FIRSTPRIVATE")>>),
   Batch("TARGET", TRUE, <<Clause(B_START, 4, "FIRSTPRIVATE")>>),
   Batch("DATA", TRUE, <<Clause(B_START, 0, "ZERO_LEN_ARRAY_SECTION")>>),
   Batch("DATA", TRUE, StructS),
   Batch("DATA", TRUE, <<ClInner("TO")>>),
   Batch("DATA", TRUE, <<ClInner("TO"), ClB("TO")>>),
   Batch("TARGET", TRUE, <<ClPartial("TO")>>)}

NextAlloc ==
  \/ \E a \in AllocBatches : MapVars(a, MaxHeld, TRUE)
  \/ \E t \in held : UnmapVars(t, TRUE, TRUE)
  \/ EnterData(Batch("ENTER_DATA", TRUE, <<ClA("TO")>>), TRUE)

SpecAlloc == Init /\ [][NextAlloc]_vars

\* No record of the index compares equal to the range r.
NotInIndex(r) == \A k \in mem_map : splay_compare(r, Key(M, k)) /= 0

\* Clause i is a field of a GOMP_MAP_STRUCT clause before it.
Field(a, i) ==
  \E j \in 1..(i - 1) : /\ KindType(a.kinds[j], a.short) = GOMP_MAP("STRUCT")
                        /\ i <= j + a.sizes[j]

\* Pass 1 counts a clause as not found: one it looks up by its range, other
\* than a zero-length array section, that no record matches.
CountedNotFound(a) ==
  \E i \in 1..a.mapnum :
    /\ a.hostaddrs[i] /= 0
    /\ ~Field(a, i)
    /\ KindType(a.kinds[i], a.short) \notin
         {GOMP_MAP("FIRSTPRIVATE"), GOMP_MAP("FIRSTPRIVATE_INT"),
          GOMP_MAP("USE_DEVICE_PTR"), GOMP_MAP("ZERO_LEN_ARRAY_SECTION")}
    /\ NotInIndex(ClauseRange(a, i))

\* C8 as stated: every gomp_map_vars call, the empty batch included, calls
\* alloc_func if and only if a clause of the batch is not in the index or the
\* pragma kind is TARGET.
C8_AllocIffNotFoundOrTarget ==
  [][call'.op \in {"gomp_map_vars", "enter_data"} =>
       (Logged(log', "alloc") <=>
          (\/ call'.a.pragma = "TARGET"
           \/ \E i \in 1..call'.a.mapnum :
                ~Field(call'.a, i) /\ NotInIndex(ClauseRange(call'.a, i))))]_vars

\* C8, amended: a gomp_map_vars call without preallocated devaddrs and with
\* mapnum = 0 never calls alloc_func, whatever its pragma kind; with
\* mapnum > 0 it calls alloc_func only if its pragma kind is TARGET or its
\* first pass counted a clause as not found (FIRSTPRIVATE clauses and
\* zero-length array sections are never counted), and a call that returns has
\* called it in each of these cases.
C8_AllocIffCountedOrTarget ==
  [][call'.op \in {"gomp_map_vars", "enter_data"} =>
       LET a == call'.a
           needs == a.pragma = "TARGET" \/ CountedNotFound(a)
       IN /\ a.mapnum = 0 => ~Logged(log', "alloc")
          /\ Logged(log', "alloc") => needs
          /\ (a.mapnum > 0 /\ status' = "running" /\ needs) => Logged(log', "alloc")]_vars

\* a data region whose only clause was found has returned without a block
C8_Witness ==
  /\ call.op = "gomp_map_vars" /\ status = "running"
  /\ call.a.pragma = "DATA" /\ call.a.mapnum = 1
  /\ ~Logged(log, "alloc")
  /\ call.t \in DOMAIN tgts
  /\ tgts[call.t].list[1].key \in mem_map
  /\ tgts[call.t].to_free = 0

----------------------------------------------------------------------------
(* Enter data, launches, exit data                                         *)

EnterA == Batch("ENTER_DATA", TRUE, <<ClA("TO")>>)

ExitA == Batch("ENTER_DATA", TRUE, <<ClA("FROM")>>)

\* enter data map(to: a), launches that use a or a part of it, and
\* exit data map(from: a); b is entered and released beside it.
NextEnterExit ==
  \/ Unmapped(A_START, A_START + A_SIZE) /\ EnterData(EnterA, TRUE)
  \/ ExitData(ExitA, TRUE)
  \/ Unmapped(B_START, B_START + 8)
       /\ EnterData(Batch("ENTER_DATA", TRUE, <<ClB("ALLOC")>>), TRUE)
  \/ ExitData(Batch("ENTER_DATA", TRUE, <<ClB("RELEASE")>>), TRUE)
  \/ \E ptr \in {A_START, A_START + 4, B_START} : IsPresent(ptr, TRUE)
  \/ Register(Image1, TRUE)
  \/ \E cl \in {ClA("TOFROM"), ClInner("TO"), ClB("FROM")} :
       Target(F_START, Batch("TARGET", FALSE, <<cl>>), TRUE)

SpecEnterExit == Init /\ [][NextEnterExit]_vars

\* The record of the range a is in the index.
MappedA ==
  \E k \in mem_map : /\ Key(M, k).host_start = A_START
                     /\ Key(M, k).host_end = A_START + A_SIZE

\* C9: enter-data of the unmapped range a with kind TO puts its record in the
\* index; the record stays, and omp_target_is_present on a returns 1, through
\* every call until exit-data of a; exit-data of a with kind FROM takes the
\* record out and issues exactly one dev2host copy, of the whole range, and
\* from then on omp_target_is_present returns 0.
C9_PresentBetweenEnterAndExit ==
  [][/\ (call'.op = "enter_data" /\ call'.a = EnterA /\ status' = "running")
          => MappedA'
     /\ (MappedA /\ status' = "running" /\ ~(call'.op = "exit_data" /\ call'.a = ExitA))
          => MappedA'
     /\ (call'.op = "omp_target_is_present" /\ call'.ptr \in {A_START, A_START + 4})
          => call'.ret = (IF MappedA THEN 1 ELSE 0)
     /\ (call'.op = "exit_data" /\ call'.a = ExitA /\ MappedA)
          => /\ status' = "running" /\ ~MappedA'
             /\ Cardinality({j \in 1..Len(log') : log'[j].ev = "dev2host"}) = 1
             /\ \E j \in 1..Len(log') :
                  /\ log'[j].ev = "dev2host"
                  /\ log'[j].a = A_START /\ log'[j].n = A_SIZE]_vars

\* omp_target_is_present has returned 1 on a, entered and not yet exited
C9_Witness ==
  /\ call.op = "omp_target_is_present" /\ call.ptr = A_START /\ call.ret = 1
  /\ MappedA

----------------------------------------------------------------------------
(* Map / unmap cycles on the symbols of a registered image                 *)

ClF(name) == Clause(F_START, 1, name)

\* Launches, data regions, enter data and exit data on the variable and the
\* function of Image1.
NextImages ==
  \/ Register(Image1, TRUE)
  \/ \E cl \in {ClV("TOFROM"), ClF("TO")} :
       Target(F_START, Batch("TARGET", FALSE, <<cl>>), TRUE)
  \/ \E cl \in {ClV("TOFROM"), Clause(V_START + 4, 4, "ALWAYS_FROM")} :
       MapVars(Batch("DATA", TRUE, <<cl>>), MaxHeld, TRUE)
  \/ \E t \in held, do_copyfrom \in BOOLEAN : UnmapVars(t, do_copyfrom, TRUE)
  \/ \E cl \in {ClV("TO"), ClF("ALLOC")} : EnterData(Batch("ENTER_DATA", TRUE, <<cl>>), TRUE)
  \/ \E cl \in {ClV("FROM"), ClV("DELETE"), ClV("RELEASE"), ClF("DELETE")} :
       ExitData(Batch("ENTER_DATA", TRUE, <<cl>>), TRUE)

SpecImages == Init /\ [][NextImages]_vars

\* gomp_load_image_to_device has created the records of the image.
Loaded(image) ==
  /\ is_initialized
  /\ \E j \in 1..Len(offload_images) : offload_images[j] = image

\* The records of the image are in the index, pinned, in a live pinned descriptor.
ImageIntact(image) ==
  \E t \in DOMAIN tgts :
    /\ tgts[t].refcount = REFCOUNT_INFINITY
    /\ tgts[t].array = ImageKeys(image, t)
    /\ \A j \in 1..Len(tgts[t].array) : <<t, j>> \in mem_map

\* C5: once an image is loaded, its records stay in the index with their
\* descriptor unfreed and their refcounts pinned, through launches, data
\* regions, enter data and exit data (DELETE included) on its symbols.
C5_ImageRecordsStay == Loaded(Image1) => ImageIntact(Image1)

\* exit data with kind DELETE has run on the variable of the loaded image
C5_Witness ==
  /\ Loaded(Image1) /\ status = "running"
  /\ call.op = "exit_data"
  /\ call.a = Batch("ENTER_DATA", TRUE, <<ClV("DELETE")>>)
  /\ ImageIntact(Image1)

----------------------------------------------------------------------------
(* Reference counts and the index under every operation                    *)

\* C4: a record whose refcount is REFCOUNT_INFINITY keeps that refcount
\* through every operation that leaves it in the index.
C4_PinnedRefcountKept ==
  [][\A k \in mem_map :
       (Key(M, k).refcount = REFCOUNT_INFINITY /\ k \in mem_map')
         => tgts'[k[1]].array[k[2]].refcount = REFCOUNT_INFINITY]_vars

OwnRecords(t) == {i \in 1..Len(tgts[t].array) : <<t, i>> \in mem_map}

\* The descriptor's own records with a refcount above zero.
OwnCounted(t) == {i \in 1..Len(tgts[t].array) : tgts[t].array[i].refcount > 0}

\* The external holders of the descriptor: the caller that gomp_map_vars
\* returned it to and that has not unmapped it yet.
Holders(t) == IF t \in held THEN 1 ELSE 0

\* C7 as stated: with the lock free a descriptor's refcount is the number of
\* its records with refcount > 0 plus its external holders, and it moves with
\* every bump of the refcount of one of its records.
C7_TgtRefcountFollowsBumps ==
  /\ []((lock = FALSE /\ status = "running") =>
          \A t \in DOMAIN tgts :
            tgts[t].refcount = Cardinality(OwnCounted(t)) + Holders(t))
  /\ [][\A k \in mem_map :
          (/\ status' = "running" /\ k \in mem_map'
           /\ tgts'[k[1]].array[k[2]].refcount > Key(M, k).refcount)
            => tgts'[k[1]].refcount > tgts[k[1]].refcount]_vars

\* The descriptor is the one gomp_load_image_to_device made for an image.
ImageTgt(t) ==
  /\ tgts[t].list_count = 0
  /\ t \notin held
  /\ Len(tgts[t].array) > 0
  /\ \E j \in 1..Len(offload_images) :
       Node(tgts[t].array[1].host_start, tgts[t].array[1].host_end)
         \in ImageRanges(offload_images[j])

\* C7, amended: with the lock free, the refcount of every descriptor but those
\* of images is the number of its own records in the index (these are its
\* records with refcount > 0) plus one while the caller gomp_map_vars returned
\* it to holds it, so a bump of a record's refcount leaves it as it is; no
\* live descriptor has the count zero.
C7_TgtRefcountCountsRecords ==
  (lock = FALSE /\ status = "running") =>
     \A t \in DOMAIN tgts :
       ~ImageTgt(t) =>
         /\ tgts[t].refcount = Cardinality(OwnRecords(t)) + Holders(t)
         /\ OwnRecords(t) = OwnCounted(t)
         /\ tgts[t].refcount > 0

\* a record with two references in a descriptor whose refcount is one
C7_Witness ==
  /\ lock = FALSE /\ status = "running"
  /\ \E k \in mem_map : /\ Key(M, k).refcount = 2
                        /\ ~ImageTgt(k[1])
                        /\ tgts[k[1]].refcount = 1

----------------------------------------------------------------------------
(* The asynchronous copy-back                                              *)

\* Data regions on A and B, one with an always-from kind and one with two
\* clauses of which only the second copies back.
AsyncBatches ==
  {Batch("DATA", TRUE, <<ClA("TOFROM")>>),
   Batch("DATA", TRUE, <<ClB("ALWAYS_FROM")>>),
   Batch("DATA", TRUE, <<ClA("TO"), ClB("TOFROM")>>)}

NextAsync ==
  \/ \E a \in AsyncBatches : MapVars(a, MaxHeld, TRUE)
  \/ \E t \in held : CopyFromAsync(t, TRUE)
  \/ \E t \in held, do_copyfrom \in BOOLEAN : UnmapVars(t, do_copyfrom, TRUE)
  \/ \E a \in EnterBatches : EnterData(a, TRUE)

SpecAsync == Init /\ [][NextAsync]_vars

\* Every slot of descriptor t points to a record with refcount 1 and no
\* asynchronous reference.
AllOnes(t) ==
  /\ t \in DOMAIN tgts
  /\ tgts[t].list_count > 0
  /\ \A i \in 1..tgts[t].list_count :
       LET k == tgts[t].list[i].key
       IN /\ k /= NULLKEY /\ k \in mem_map
          /\ Key(M, k).refcount = 1 /\ Key(M, k).async_refcount = 0

\* The whole-record copy of slot i of descriptor t.
SlotCopy(t, i) ==
  LET k == tgts[t].list[i].key
  IN Ev("dev2host", Key(M, k).host_start,
        Wrap(tgts[k[1]].tgt_start + Key(M, k).tgt_offset),
        Wrap(Key(M, k).host_end - Key(M, k).host_start))

RECURSIVE SlotsWith(_, _, _)
SlotsWith(t, f, i) ==
  IF i > tgts[t].list_count THEN << >>
  ELSE (IF tgts[t].list[i][f] THEN <<i>> ELSE << >>) \o SlotsWith(t, f, i + 1)

----------------------------------------------------------------------------
(* The copies of gomp_unmap_vars                                           *)

\* Regions with copy-back, without it and with an always-from kind, on their
\* own record, on a record that an enter-data call mapped and twice on one
\* record.
UnmapBatches ==
  {Batch("DATA", TRUE, <<ClA("TOFROM")>>),
   Batch("DATA", TRUE, <<ClA("TO")>>),
   Batch("DATA", TRUE, <<ClInner("FROM")>>),
   Batch("DATA", TRUE, <<ClInner("ALWAYS_FROM")>>),
   Batch("DATA", TRUE, <<ClA("TO"), ClInner("FROM")>>),
   Batch("TARGET", TRUE, <<ClB("FROM"), Clause(B_START, 4, "FIRSTPRIVATE")>>)}

NextUnmap ==
  \/ \E a \in UnmapBatches : MapVars(a, MaxHeld, TRUE)
  \/ \E t \in held, do_copyfrom \in BOOLEAN : UnmapVars(t, do_copyfrom, TRUE)
  \/ \E t \in held : CopyFromAsync(t, TRUE)
  \/ ~MappedA /\ EnterData(EnterA, TRUE)
  \/ \E a \in ExitBatches : ExitData(a, TRUE)

SpecUnmap == Init /\ [][NextUnmap]_vars

\* The copy the step on slot i of descriptor t owes, in the machine state m the
\* step starts in: one copy of the slot's part of its record if the slot has
\* always_copy_from, or if the step unmaps the record (its refcount is 1 and its
\* async_refcount 0) and both do_copyfrom and the slot's copy_from are set.
OwedCopy(m, t, i, do_copyfrom) ==
  LET slot == m.tgts[t].list[i]
      k == slot.key
  IN IF k = NULLKEY THEN << >>
     ELSE IF \/ slot.always_copy_from
             \/ /\ Key(m, k).refcount = 1 /\ Key(m, k).async_refcount = 0
                /\ do_copyfrom /\ slot.copy_from
          THEN <<[a |-> Key(m, k).host_start + slot.offset, n |-> slot.length]>>
          ELSE << >>

\* The copies owed by the steps on slots 1..i, each in the state its step starts in.
RECURSIVE OwedCopies(_, _, _)
OwedCopies(t, i, do_copyfrom) ==
  IF i = 0 THEN << >>
  ELSE OwedCopies(t, i - 1, do_copyfrom)
         \o OwedCopy(UnmapLoop(gomp_mutex_lock(M), t, 1, i - 1, do_copyfrom), t, i, do_copyfrom)

\* C27: gomp_unmap_vars issues a dev2host copy for a slot exactly when the slot
\* has always_copy_from, or its record is unmapped by that step (refcount 1 to
\* 0 with async_refcount 0) and do_copyfrom and the slot's copy_from are both
\* set; the copy is of [host_start + offset, host_start + offset + length).
C27_UnmapCopies ==
  [][(call'.op = "gomp_unmap_vars" /\ status' = "running")
     => [j \in 1..Len(Copies(log')) |->
           [a |-> Copies(log')[j].a, n |-> Copies(log')[j].n]]
          = OwedCopies(call'.t, tgts[call'.t].list_count, call'.do_copyfrom)]_vars

\* a region with two slots on one record has been unmapped: the step on the
\* first slot left the record mapped and copied nothing, the step on the second
\* unmapped it and copied the slot's part back
C27_Witness ==
  /\ call.op = "gomp_unmap_vars" /\ call.do_copyfrom /\ status = "running"
  /\ Len(Copies(log)) = 1
  /\ Copies(log)[1].a = A_START + 4 /\ Copies(log)[1].n = 4
  /\ Logged(log, "remove")
  /\ ~MappedA

----------------------------------------------------------------------------
(* The clauses of gomp_exit_data                                           *)

\* enter data of A, twice over, and of a struct whose two fields share one
\* descriptor.
ExitEnterBatches ==
  {EnterA, Batch("ENTER_DATA", TRUE, StructS)}

\* exit data with every kind the loop handles: on A, on a part of A, on a field
\* of the struct, on a registered variable, on the unmapped B, with zero-length
\* sections at the start and past the end of A, and with two clauses on A.
ExitKindBatches ==
  {Batch("ENTER_DATA", TRUE, <<ClA(kind)>>) : kind \in {"FROM", "ALWAYS_FROM", "RELEASE", "DELETE"}}
  \cup
  {Batch("ENTER_DATA", TRUE, <<ClInner("FROM")>>),
   Batch("ENTER_DATA", TRUE, <<Clause(S_START + 4, 4, "RELEASE")>>),
   Batch("ENTER_DATA", TRUE, <<Clause(V_START, 8, "DELETE")>>),
   Batch("ENTER_DATA", TRUE, <<ClB("FROM")>>),
   Batch("ENTER_DATA", TRUE, <<ClB("DELETE")>>),
   Batch("ENTER_DATA", TRUE, <<Clause(A_START, 0, "ZERO_LEN_ARRAY_SECTION")>>),
   Batch("ENTER_DATA", TRUE, <<Clause(A_START + A_SIZE, 0, "DELETE_ZERO_LEN_ARRAY_SECTION")>>),
   Batch("ENTER_DATA", TRUE, <<Clause(B_START, 0, "ZERO_LEN_ARRAY_SECTION")>>),
   Batch("ENTER_DATA", TRUE, <<ClA("RELEASE"), ClA("FROM")>>)}

NextExit ==
  \/ \E a \in ExitEnterBatches : EnterData(a, TRUE)
  \/ \E a \in ExitKindBatches : ExitData(a, TRUE)
  \/ Register(Image1, TRUE)

SpecExit == Init /\ [][NextExit]_vars

\* The records the lookup of clause i of batch a returns in machine state m.
ExitFound(m, a, i) ==
  LET kind == a.kinds[i] % 256
      cur == Node(a.hostaddrs[i], Wrap(a.hostaddrs[i] + a.sizes[i]))
  IN (IF kind \in {GOMP_MAP("DELETE_ZERO_LEN_ARRAY_SECTION"),
                   GOMP_MAP("ZERO_LEN_ARRAY_SECTION")}
      THEN gomp_map_lookup(m, cur) ELSE splay_tree_lookup(m, cur)) \ {NULLKEY}

\* What the step on clause i owes to the record k it found with a finite
\* refcount, from machine state m to m2.
ExitOwed(m, m2, a, i, k) ==
  LET kind == a.kinds[i] % 256
      rc == IF kind \in {GOMP_MAP("DELETE"), GOMP_MAP("DELETE_ZERO_LEN_ARRAY_SECTION")}
            THEN 0 ELSE Key(m, k).refcount - 1
      new == SubSeq(m2.log, Len(m.log) + 1, Len(m2.log))
  IN /\ Len(Copies(new)) = IF \/ kind = GOMP_MAP("ALWAYS_FROM")
                              \/ kind = GOMP_MAP("FROM") /\ rc = 0
                           THEN 1 ELSE 0
     /\ \A j \in 1..Len(Copies(new)) :
          Copies(new)[j].a = a.hostaddrs[i] /\ Copies(new)[j].n = a.sizes[i]
     /\ IF rc = 0
        THEN /\ m2.mem_map = m.mem_map \ {k}
             /\ IF m.tgts[k[1]].refcount > 1
                THEN /\ k[1] \in DOMAIN m2.tgts
                     /\ m2.tgts[k[1]].refcount = m.tgts[k[1]].refcount - 1
                ELSE /\ k[1] \notin DOMAIN m2.tgts
                     /\ m.tgts[k[1]].tgt_end /= 0 => m.tgts[k[1]].to_free \notin m2.blocks
        ELSE /\ m2.mem_map = m.mem_map
             /\ Key(m2, k).refcount = rc
             /\ m2.tgts[k[1]].refcount = m.tgts[k[1]].refcount
     /\ \A x \in m2.mem_map : x /= k => Key(m2, x) = Key(m, x)

\* What the step on clause i owes in machine state m: nothing changes if the
\* lookup finds no record; a found record with a finite refcount gets its due.
ExitStepOwed(m, m2, a, i) ==
  IF ExitFound(m, a, i) = {} THEN m2 = m
  ELSE \E k \in ExitFound(m, a, i) :
         Key(m, k).refcount /= REFCOUNT_INFINITY => ExitOwed(m, m2, a, i, k)

\* The machine states in which the step on clause i of batch a starts.
ExitStarts(a, i) ==
  {m \in ExitDataLoop({gomp_mutex_lock(resolve_device(M, 0)[1])}, [a EXCEPT !.mapnum = i - 1], 1) :
     ~Stopped(m)}

\* C28: in gomp_exit_data a found record with a finite refcount is decremented
\* by one by a FROM, ALWAYS_FROM, RELEASE or zero-length clause and set to zero
\* by a delete kind, whatever its count; dev2host is called, on the clause's
\* range, iff the kind is ALWAYS_FROM or the kind is FROM and the refcount is
\* zero after the step; the record is removed, and its descriptor's reference
\* dropped (the descriptor freed with its last one), iff the refcount is zero
\* after the step; a clause whose lookup finds nothing changes nothing.  Each
\* step of a call is held to this, and so is the outcome of a call with one
\* clause.
C28_ExitDataClauses ==
  [][(call'.op = "exit_data" /\ status' = "running")
     => /\ \A i \in 1..call'.a.mapnum :
             \A m \in ExitStarts(call'.a, i) :
               \A m2 \in ExitDataStep(m, call'.a, i) : ExitStepOwed(m, m2, call'.a, i)
        /\ call'.a.mapnum = 1
             => LET m == gomp_mutex_lock(resolve_device(M, 0)[1])
                IN ExitStepOwed(m, [m EXCEPT !.tgts = tgts', !.mem_map = mem_map',
                                             !.blocks = blocks', !.log = log'],
                                call'.a, 1)]_vars

\* exit data with kind DELETE has found the record of A: the record is gone,
\* nothing was copied back and the device block is freed
C28_Witness ==
  /\ call.op = "exit_data" /\ status = "running"
  /\ call.a = Batch("ENTER_DATA", TRUE, <<ClA("DELETE")>>)
  /\ Logged(log, "remove") /\ Logged(log, "free") /\ ~Logged(log, "dev2host")
  /\ ~MappedA

----------------------------------------------------------------------------
(* gomp_map_vars for enter data                                            *)

WholeS == Clause(S_START, 16, "ALLOC")

ReleaseA == Batch("ENTER_DATA", TRUE, <<ClA("RELEASE")>>)

\* enter data of A, of a part of A, of the whole struct, of two of its fields,
\* of a registered variable, of a firstprivate and of a zero-length section at
\* the end of A: each batch is one call of gomp_map_vars.
EnterCalls ==
  {EnterA,
   Batch("ENTER_DATA", TRUE, <<ClInner("TO")>>),
   Batch("ENTER_DATA", TRUE, <<WholeS>>),
   Batch("ENTER_DATA", TRUE, StructS),
   Batch("ENTER_DATA", TRUE, <<Clause(V_START, 8, "TO")>>),
   Batch("ENTER_DATA", TRUE, <<Clause(B_START, 4, "FIRSTPRIVATE")>>),
   Batch("ENTER_DATA", TRUE, <<Clause(A_START + A_SIZE, 0, "ZERO_LEN_ARRAY_SECTION")>>)}

ReleaseCalls ==
  {ReleaseA,
   Batch("ENTER_DATA", TRUE, <<Clause(S_START, 16, "RELEASE")>>),
   Batch("ENTER_DATA", TRUE, <<ClA("DELETE")>>)}

NextEnter ==
  \/ \E a \in EnterCalls : EnterData(a, TRUE)
  \/ \E a \in ReleaseCalls : ExitData(a, TRUE)
  \/ Register(Image1, TRUE)

SpecEnter == Init /\ [][NextEnter]_vars

\* The clauses of batch a that name record k of machine state m: the clauses,
\* other than the head of a struct, whose range lies in the record.
Naming(m, a, k) ==
  {i \in 1..a.mapnum :
     /\ KindType(a.kinds[i], a.short) /= GOMP_MAP("STRUCT")
     /\ Contains(Key(m, k), Node(a.hostaddrs[i], a.hostaddrs[i] + a.sizes[i]))}

\* The events a call adds to the log of the machine state m it starts in.
Added(m, m2) == SubSeq(m2.log, Len(m.log) + 1, Len(m2.log))

\* The call returns none, and has freed its descriptor, exactly when it
\* inserted no record.
NoneIffNoInsert(m, r) ==
  /\ r[2] = 0 <=> ~Logged(Added(m, r[1]), "insert")
  /\ r[2] = 0 => DOMAIN r[1].tgts = DOMAIN m.tgts

RECURSIVE EnterTimes(_, _, _)
EnterTimes(S, a, n) ==
  IF n = 0 THEN S
  ELSE EnterTimes(UNION {GOMP_target_enter_exit_data(m, 0, a, FALSE) : m \in S}, a, n - 1)

RECURSIVE ExitTimes(_, _, _)
ExitTimes(S, a, n) ==
  IF n = 0 THEN S
  ELSE ExitTimes(UNION {GOMP_target_enter_exit_data(m, 0, a, TRUE) : m \in S}, a, n - 1)

Mapped(m, hs, he) ==
  \E k \in m.mem_map : Key(m, k).host_start = hs /\ Key(m, k).host_end = he

\* From a state where A is not mapped, n enter-data calls on A followed by
\* exit-data RELEASE calls: the record is still there after fewer than n of
\* them and gone after the n-th.
RemovedAtNth ==
  (status = "running" /\ Unmapped(A_START, A_START + A_SIZE))
    => \A n \in 1..MaxRefcount :
         \A m \in EnterTimes({M}, EnterA, n) :
           \A j \in 1..n :
             \A m2 \in ExitTimes({m}, ReleaseA, j) :
               Mapped(m2, A_START, A_START + A_SIZE) <=> j < n

\* C29 as stated: a gomp_map_vars call for enter data that returns returns
\* none, its descriptor freed, exactly when it inserted no record, and then
\* every record with a finite refcount that the batch names has its refcount
\* raised by one; n enter-data calls on a range are undone by exactly n
\* exit-data RELEASE calls.
C29_EnterRaisesByOne ==
  [][(call'.op = "enter_data" /\ status' = "running")
     => LET m == resolve_device(M, 0)[1]
        IN /\ \E r \in gomp_map_vars(m, call'.a) :
                /\ tgts' = r[1].tgts /\ mem_map' = r[1].mem_map /\ log' = r[1].log
                /\ NoneIffNoInsert(m, r)
                /\ r[2] = 0 =>
                     \A k \in m.mem_map :
                       (Naming(m, call'.a, k) /= {} /\ Key(m, k).refcount /= REFCOUNT_INFINITY)
                         => tgts'[k[1]].array[k[2]].refcount = Key(m, k).refcount + 1
           /\ RemovedAtNth]_vars

\* C29, amended: a gomp_map_vars call for enter data that returns returns
\* none, its descriptor freed, exactly when it inserted no record, and then
\* every record with a finite refcount that the batch names has its refcount
\* raised by one for each clause of the batch that names it; n enter-data
\* calls on a range are undone by exactly n exit-data RELEASE calls.
C29_EnterRaisesPerClause ==
  [][(call'.op = "enter_data" /\ status' = "running")
     => LET m == resolve_device(M, 0)[1]
        IN /\ \E r \in gomp_map_vars(m, call'.a) :
                /\ tgts' = r[1].tgts /\ mem_map' = r[1].mem_map /\ log' = r[1].log
                /\ NoneIffNoInsert(m, r)
                /\ r[2] = 0 =>
                     \A k \in m.mem_map :
                       (Naming(m, call'.a, k) /= {} /\ Key(m, k).refcount /= REFCOUNT_INFINITY)
                         => tgts'[k[1]].array[k[2]].refcount
                              = Key(m, k).refcount + Cardinality(Naming(m, call'.a, k))
           /\ RemovedAtNth]_vars

\* enter data on two fields of a struct that is mapped as a whole has inserted
\* nothing and has left no descriptor: the record of the struct has two more
\* references
C29_Witness ==
  /\ call.op = "enter_data" /\ status = "running"
  /\ call.a = Batch("ENTER_DATA", TRUE, StructS)
  /\ ~Logged(log, "insert")
  /\ \E k \in mem_map : /\ Key(M, k).host_start = S_START
                        /\ Key(M, k).host_end = S_START + 16
                        /\ Key(M, k).refcount = 3

----------------------------------------------------------------------------
(* The argument array of a launch                                          *)

\* Launches whose clauses end with a key (A, the fields of a struct, the
\* pointer of a pointer set, a zero-length section on A) and without one: a
\* firstprivate, a firstprivate int, a null host address, a zero-length section
\* on nothing, a use_device_ptr and the head of a struct.
ArgBatches ==
  {Batch("TARGET", TRUE, <<ClA("TOFROM")>>),
   Batch("TARGET", TRUE, <<Clause(B_START, 4, "FIRSTPRIVATE"), Clause(7, 0, "FIRSTPRIVATE_INT")>>),
   Batch("TARGET", TRUE, <<Clause(0, 0, "ALLOC"), Clause(B_START, 0, "ZERO_LEN_ARRAY_SECTION")>>),
   Batch("TARGET", TRUE, <<Clause(A_START + 4, 0, "USE_DEVICE_PTR")>>),
   Batch("TARGET", TRUE, <<Clause(A_START, 0, "ZERO_LEN_ARRAY_SECTION")>>),
   Batch("TARGET", TRUE, StructS),
   Batch("TARGET", TRUE, PsetP)}

NextArgs ==
  \/ \E a \in ArgBatches : MapVars(a, MaxHeld, TRUE)
  \/ \E t \in held : UnmapVars(t, TRUE, TRUE)
  \/ ~MappedA /\ EnterData(EnterA, TRUE)
  \/ Unmapped(S_START, S_START + 16) /\ EnterData(Batch("ENTER_DATA", TRUE, <<WholeS>>), TRUE)

SpecArgs == Init /\ [][NextArgs]_vars

\* The device address of slot i of descriptor t: that of its key's record plus
\* the slot's offset; indeterminate if the offset was never assigned.
SlotAddress(m, t, i) ==
  LET slot == m.tgts[t].list[i]
  IN IF slot.offset = UNINIT THEN {UNINIT}
     ELSE {Wrap(m.tgts[slot.key[1]].tgt_start + Key(m, slot.key).tgt_offset + slot.offset)}

\* The host address of clause i as the third loop reads it: use_device_ptr has
\* replaced it by the device address it translates to in machine state m.
Translated(m, a, i) ==
  IF a.hostaddrs[i] /= 0 /\ KindType(a.kinds[i], a.short) = GOMP_MAP("USE_DEVICE_PTR")
  THEN {Wrap(m.tgts[n[1]].tgt_start + Key(m, n).tgt_offset
             + a.hostaddrs[i] - Key(m, n).host_start)
          : n \in gomp_map_lookup(m, Node(a.hostaddrs[i], a.hostaddrs[i])) \ {NULLKEY}}
  ELSE {a.hostaddrs[i]}

\* The values entry i of the argument array may have, for the call on batch a
\* from machine state m that left descriptor t in machine state m2.
ArgOwed(m, m2, a, t, i) ==
  LET slot == m2.tgts[t].list[i]
  IN IF slot.key /= NULLKEY THEN SlotAddress(m2, t, i)
     ELSE IF slot.offset = Not(0) THEN Translated(m, a, i)
     ELSE IF slot.offset = Not(1) THEN {0}
     ELSE IF slot.offset = Not(2)
     THEN {Wrap(x + a.hostaddrs[i] - a.hostaddrs[i + 1]) : x \in SlotAddress(m2, t, i + 1)}
     ELSE {Wrap(m2.tgts[t].tgt_start + slot.offset)}

\* C30: a gomp_map_vars call for a launch writes, as entry i of the argument
\* array, key.tgt.tgt_start + key.tgt_offset + slot.offset if slot i has a key
\* (indeterminate for the pointer of a pointer set, whose slot has a key and an
\* offset that was never assigned); otherwise the host address, translated by
\* use_device_ptr, for the offset ~0, zero for ~1, the device address of the
\* following slot plus hostaddrs[i] - hostaddrs[i+1] for ~2, and tgt_start +
\* slot.offset for any other offset.  Every slot without a key has its offset
\* assigned by then, the slot after one with offset ~2 has a key, and the loop
\* reads no slot that would make it undefined.
C30_ArgumentArray ==
  [][(call'.op = "gomp_map_vars" /\ call'.a.pragma = "TARGET" /\ call'.a.mapnum > 0)
     => /\ status' /= "undefined"
        /\ status' = "running" =>
             LET m == resolve_device(M, 0)[1]
                 m2 == [m EXCEPT !.tgts = tgts', !.mem_map = mem_map']
                 t == call'.t
                 n == call'.a.mapnum
             IN /\ t /= 0 /\ Len(log') >= n
                /\ \A i \in 1..n :
                     LET slot == tgts'[t].list[i]
                         e == log'[Len(log') - n + i]
                     IN /\ e.ev = "host2dev_ptr"
                        /\ e.a = Wrap(tgts'[t].tgt_start + (i - 1) * PTR_SIZE)
                        /\ e.b \in ArgOwed(m, m2, call'.a, t, i)
                        /\ slot.key = NULLKEY => slot.offset /= UNINIT
                        /\ (slot.key = NULLKEY /\ slot.offset = Not(2))
                             => (i < n /\ tgts'[t].list[i + 1].key /= NULLKEY)]_vars

\* a launch on a struct has written its argument array: the head of the struct
\* has no key and the offset ~2, and its entry is computed from the first field
C30_Witness ==
  /\ call.op = "gomp_map_vars" /\ call.a = Batch("TARGET", TRUE, StructS)
  /\ status = "running" /\ call.t \in held
  /\ tgts[call.t].list[1].key = NULLKEY /\ tgts[call.t].list[1].offset = Not(2)
  /\ tgts[call.t].list[2].key /= NULLKEY
  /\ log[Len(log) - 2].ev = "host2dev_ptr"
  /\ log[Len(log) - 2].b = Wrap(log[Len(log) - 1].b + S_START - (S_START + 4))

----------------------------------------------------------------------------
(* The locks at a fatal error                                              *)

\* An image whose table from the plugin has no entry for its one function.
ImageShort ==
  [version |-> 0, type |-> DeviceType, funcs |-> <<F_START + 2>>, vars |-> << >>,
   target |-> << >>]

\* An image whose variable has another size on the device.
ImageResized ==
  [version |-> 0, type |-> DeviceType, funcs |-> << >>,
   vars |-> <<[addr |-> V_START + 8, size |-> 8]>>,
   target |-> <<[start |-> D_START + 32, end |-> D_START + 36]>>]

\* An image built for a newer library.
ImageNewer == [Image1 EXCEPT !.version = 2^16]

\* Batches that gomp_map_vars rejects, some only after enter data has mapped A.
FatalBatches ==
  {Batch("DATA", TRUE, <<ClB("TOFROM")>>),
   Batch("DATA", TRUE, <<ClPartial("TOFROM")>>),
   Batch("DATA", TRUE, <<ClA("FORCE_TO")>>),
   Batch("DATA", TRUE, <<ClB("FORCE_PRESENT")>>),
   Batch("DATA", TRUE, <<ClB("USE_DEVICE_PTR")>>),
   Batch("DATA", TRUE, <<ClB("RELEASE")>>),
   Batch("DATA", TRUE, <<Clause(A_START + 8, 2, "STRUCT"), Clause(A_START + 12, 4, "TO"),
                         Clause(A_START + 20, 4, "TO")>>),
   Batch("TARGET", TRUE, <<[addr |-> P_START, size |-> 0, kind |-> GOMP_MAP("POINTER"),
                            ptr |-> H_START]>>)}

NextFatal ==
  \/ \E a \in EnterBatches : EnterData(a, TRUE)
  \/ \E a \in FatalBatches : MapVars(a, MaxHeld, TRUE)
  \/ \E t \in held : UnmapVars(t, TRUE, TRUE)
  \/ \E cl \in {ClA("TO"), ClPartial("TO")} : Update(Batch("DATA", TRUE, <<cl>>), TRUE)
  \/ \E cl \in {ClA("TO"), ClA("RELEASE")} : ExitData(Batch("ENTER_DATA", TRUE, <<cl>>), TRUE)
  \/ \E image \in {Image1, ImageShort, ImageResized, ImageNewer} : Register(image, TRUE)
  \/ \E fn \in {F_START, H_START} :
       Target(fn, Batch("TARGET", TRUE, <<ClB("TOFROM")>>), TRUE)

SpecFatal == Init /\ [][NextFatal]_vars

----------------------------------------------------------------------------
(* Registration and its reverse                                            *)

\* An image for a device of another type.
ImageOther == [Image1 EXCEPT !.type = "T1"]

\* An image with no function and no variable.
ImageEmpty ==
  [version |-> 0, type |-> DeviceType, funcs |-> << >>, vars |-> << >>, target |-> << >>]

\* An image with one variable only.
ImageVar ==
  [version |-> 0, type |-> DeviceType, funcs |-> << >>,
   vars |-> <<[addr |-> V_START + 8, size |-> 8]>>,
   target |-> <<[start |-> D_START + 32, end |-> D_START + 40]>>]

UnregisterImages == {Image1, ImageOther, ImageEmpty, ImageVar}

\* The descriptors that gomp_load_image_to_device made for the image on the
\* device.
ImageTgts(image) ==
  {t \in DOMAIN tgts : /\ image.type = DeviceType
                       /\ tgts[t].refcount = REFCOUNT_INFINITY
                       /\ tgts[t].list_count = 0
                       /\ tgts[t].array = ImageKeys(image, t)}

\* The records of the image in the index.
ImageRecords(image) == {k \in mem_map : k[1] \in ImageTgts(image)}

\* Images come and go while the device is initialized by the first data
\* region and A is mapped and unmapped.  An image is not registered again
\* while the device has a descriptor of it.
NextUnregister ==
  \/ \E image \in UnregisterImages : ImageTgts(image) = {} /\ Register(image, TRUE)
  \/ \E image \in UnregisterImages : Unregister(image, TRUE)
  \/ MapVars(Batch("DATA", TRUE, <<ClA("TOFROM")>>), MaxHeld, TRUE)
  \/ \E t \in held : UnmapVars(t, TRUE, TRUE)

SpecUnregister == Init /\ [][NextUnregister]_vars

\* The calls of unload_image_func in a log.
Unloads(l) == SelectSeq(l, LAMBDA e : e.ev = "unload_image")

\* The unregistration of an image has left the index without its records and
\* the other records and descriptors as they were.
Reversed(image) ==
  /\ mem_map' = mem_map \ ImageRecords(image)
  /\ \A t \in (DOMAIN tgts) \ ImageTgts(image) : t \in DOMAIN tgts' /\ tgts'[t] = tgts[t]
  /\ \A j \in 1..Len(offload_images') : offload_images'[j] /= image

----------------------------------------------------------------------------
(* The order of register_lock and the device lock                          *)

\* Threads resolve the device, register and unregister images, all at once.
NextRegister ==
  \/ \E self \in Threads : ResolveCall(self, 0)
  \/ \E self \in Threads : Resolve(self)
  \/ \E self \in Threads, image \in {Image1, ImageOther} : RegisterCall(self, image)
  \/ \E self \in Threads, image \in {Image1, ImageOther} : UnregisterCall(self, image)
  \/ \E self \in Threads : Registration(self)

SpecRegister == Init /\ [][NextRegister]_vars

\* C13: a thread takes register_lock only while it holds no device lock, a
\* thread that takes the device lock while holding register_lock had
\* register_lock before, and a thread that gives up register_lock holds no
\* device lock after that: with both locks, register_lock is the first taken
\* and the last released.
C13_RegisterLockOutermost ==
  [][\A t \in Threads :
       /\ (register_owner' = t /\ register_owner /= t) => (lock_owner /= t /\ lock_owner' /= t)
       /\ (register_owner = t /\ register_owner' /= t) => lock_owner' /= t
       /\ (lock_owner' = t /\ lock_owner /= t /\ register_owner' = t) => register_owner = t]_vars

\* a thread holds register_lock and the device lock, about to load its image
\* on the device that a resolve_device call has initialized
C13_Witness ==
  \E t \in Threads :
    /\ register_owner = t /\ lock_owner = t
    /\ pc[t].at = "register_load"
    /\ is_initialized

----------------------------------------------------------------------------
(* Registration against the lazy initialization of the device              *)

\* C16: once a registration of Image1 and the initialization of the device
\* have both completed, in whatever order their steps were taken, the device
\* has the records of the image exactly once.
C16_ImagePresentOnce ==
  (/\ \A t \in Threads : pc[t] = Idle
   /\ is_initialized
   /\ \E j \in 1..Len(offload_images) : offload_images[j] = Image1)
    => /\ status = "running"
       /\ Cardinality(ImageTgts(Image1)) = 1
       /\ \A t \in ImageTgts(Image1) : \A j \in 1..Len(tgts[t].array) : <<t, j>> \in mem_map

----------------------------------------------------------------------------
(* Threads that resolve the same device                                    *)

\* Some thread is inside resolve_device.
Resolving ==
  \E o \in Threads : pc[o].at \in {"resolve_lock", "resolve_test", "init_loop",
                                   "resolve_unlock"}

\* Threads call resolve_device at the same time; images are registered and
\* unregistered while no thread is inside resolve_device.
NextInit ==
  \/ \E self \in Threads : ~Registering /\ ResolveCall(self, 0)
  \/ \E self \in Threads : Resolve(self)
  \/ \E self \in Threads, image \in {Image1, ImageOther, ImageVar} :
       ~Resolving /\ RegisterCall(self, image)
  \/ \E self \in Threads, image \in {Image1, ImageOther, ImageVar} :
       ~Resolving /\ UnregisterCall(self, image)
  \/ \E self \in Threads : Registration(self)

SpecInit == Init /\ [][NextInit]_vars

\* C15: however the resolve_device calls of the threads interleave,
\* init_device_func is called once (log keeps its calls), a thread leaves
\* resolve_device only with is_initialized set, and the initialized device
\* has each registered image of its type loaded once.
C15_InitOnce ==
  /\ Len(log) <= 1
  /\ is_initialized => Len(log) = 1
  /\ \A self \in Threads : pc[self].at = "resolve_unlock" => is_initialized
  /\ (is_initialized /\ ~Registering)
       => \A j \in 1..Len(offload_images) :
            offload_images[j].type = DeviceType
              => Cardinality(ImageTgts(offload_images[j])) = 1

\* one thread has initialized the device and loaded two images, and is about
\* to return, while another waits for the device lock
C15_Witness ==
  \E t1, t2 \in Threads :
    /\ pc[t1].at = "resolve_unlock" /\ lock_owner = t1
    /\ pc[t2].at = "resolve_lock"
    /\ is_initialized /\ Len(log) = 1
    /\ ImageTgts(Image1) /= {} /\ ImageTgts(ImageVar) /= {}

----------------------------------------------------------------------------
(* Writes to the index and the reference counts, and the device lock       *)

\* One thread at a time resolves the device, registers or unregisters
\* Image1, step by step; between its steps the other threads map, unmap,
\* enter, exit, associate and disassociate A: each of these entry points
\* runs from its gomp_mutex_lock, which needs the lock free, to its
\* gomp_mutex_unlock.  A is entered while it is unmapped and mapped while no
\* descriptor is held.
NextLocked ==
  \/ \E self \in Threads : ~Resolving /\ ~Registering /\ ResolveCall(self, 0)
  \/ \E self \in Threads : Resolve(self)
  \/ \E self \in Threads : ~Resolving /\ ~Registering /\ RegisterCall(self, Image1)
  \/ \E self \in Threads : ~Resolving /\ ~Registering /\ UnregisterCall(self, Image1)
  \/ \E self \in Threads : Registration(self)
  \/ /\ lock_owner = 0 /\ held = {}
     /\ MapVars(Batch("DATA", TRUE, <<ClA("TOFROM")>>), MaxHeld, FALSE)
  \/ \E t \in held : lock_owner = 0 /\ UnmapVars(t, TRUE, FALSE)
  \/ \E t \in held : lock_owner = 0 /\ CopyFromAsync(t, FALSE)
  \/ lock_owner = 0 /\ ~MappedA /\ EnterData(EnterA, FALSE)
  \/ \E a \in ExitBatches : lock_owner = 0 /\ ExitData(a, TRUE)
  \/ lock_owner = 0 /\ AssociatePtr(A_START, D_START + 64, A_SIZE, FALSE)
  \/ lock_owner = 0 /\ DisassociatePtr(A_START, FALSE)

SpecLocked == Init /\ [][NextLocked]_vars

\* C14: the index, the refcount and async_refcount of a record and the
\* refcount of a descriptor are written only by a thread that holds the
\* device lock, however the threads interleave.  The first values that
\* gomp_map_vars gives a descriptor it has just allocated, which no other
\* thread can reach yet, are not writes of this kind.
C14_WritesUnderLock == ~unlocked

\* exit data has taken the record of A from the index while another thread,
\* between the locks of its registration, holds register_lock
C14_Witness ==
  /\ call.op = "exit_data" /\ Logged(log, "remove")
  /\ register_owner /= 0 /\ lock_owner = 0
  /\ ~unlocked

----------------------------------------------------------------------------
(* Cancellation and NOWAIT at the entry points                             *)

\* Threads of every context launch F on B, update the inside of A, and
\* enter and exit A, with and without NOWAIT and depend clauses.
NextTask ==
  \/ Register(Image1, TRUE)
  \/ \E thr \in GompThreads :
       /\ ImageTgts(Image1) /= {}
       /\ TargetIn(thr, F_START, Batch("TARGET", FALSE, <<ClB("TOFROM")>>), TRUE)
  \/ \E thr \in GompThreads, flags \in SUBSET {GOMP_TARGET_FLAG_NOWAIT}, depend \in BOOLEAN :
       /\ ImageTgts(Image1) /= {}
       /\ Target41(thr, F_START, Batch("TARGET", TRUE, <<ClB("TOFROM")>>), flags, depend, TRUE)
  \/ \E thr \in GompThreads, flags \in SUBSET {GOMP_TARGET_FLAG_NOWAIT}, depend \in BOOLEAN :
       Update41(thr, Batch("DATA", TRUE, <<ClInner("TO")>>), flags, depend, TRUE)
  \/ \E thr \in GompThreads, flags \in SUBSET {GOMP_TARGET_FLAG_NOWAIT}, depend \in BOOLEAN :
       ~MappedA /\ EnterExitData41(thr, EnterA, flags, depend, TRUE)
  \/ \E thr \in GompThreads, flags \in SUBSET {GOMP_TARGET_FLAG_NOWAIT}, depend \in BOOLEAN :
       EnterExitData41(thr, ExitA, flags \cup {GOMP_TARGET_FLAG_EXIT_DATA}, depend, TRUE)

SpecTask == Init /\ [][NextTask]_vars

\* The calls of the plugin and of the device's memory.
PluginEvents(l) ==
  {j \in 1..Len(l) : l[j].ev \notin {"create_target_task", "wait_for_dependencies", "fallback"}}

\* C18: GOMP_target, GOMP_target_41 and GOMP_target_enter_exit_data called by
\* a thread whose team or taskgroup is cancelled do nothing: no mapping, no
\* call of the plugin, no change of the index or of a refcount (on a device
\* that is initialized already).
C18_CancelledIsNoOp ==
  [][(/\ call'.op \in {"GOMP_target", "GOMP_target_41", "GOMP_target_enter_exit_data"}
      /\ Cancelled(call'.thr)
      /\ is_initialized)
       => /\ PluginEvents(log') = {}
          /\ mem_map' = mem_map /\ tgts' = tgts /\ blocks' = blocks]_vars

\* C19: GOMP_target_41, GOMP_target_update_41 and
\* GOMP_target_enter_exit_data called with GOMP_TARGET_FLAG_NOWAIT hand the
\* work to gomp_create_target_task, and the calling thread does not map,
\* copy, run or unmap (on a device that is initialized already).
C19_NowaitMakesTask ==
  [][(/\ call'.op \in {"GOMP_target_41", "GOMP_target_update_41",
                       "GOMP_target_enter_exit_data"}
      /\ Flag(call'.flags, GOMP_TARGET_FLAG_NOWAIT)
      /\ is_initialized)
       => /\ Logged(log', "create_target_task")
          /\ PluginEvents(log') = {}
          /\ mem_map' = mem_map /\ tgts' = tgts /\ blocks' = blocks]_vars

----------------------------------------------------------------------------
(* gomp_update                                                             *)

\* The batches of the updates: the whole of A with kinds that copy and kinds
\* that do not, the inside of A, a range that leaves A, a clause of size
\* zero, B, and batches of two clauses.
UpdateClauses ==
  {<<ClA(k)>> : k \in {"ALLOC", "TO", "FROM", "TOFROM", "ALWAYS_TO", "FORCE_FROM", "POINTER"}}
    \cup {<<ClInner(k)>> : k \in {"TO", "FROM", "TOFROM"}}
    \cup {<<ClPartial("TO")>>, <<Clause(A_START, 0, "TO")>>, <<ClB("TOFROM")>>,
          <<ClInner("TO"), ClPartial("FROM")>>,
          <<Clause(A_START, 0, "TO"), ClInner("FROM")>>,
          <<ClB("TO"), ClA("TOFROM")>>}

NextUpdate ==
  \/ ~MappedA /\ EnterData(EnterA, TRUE)
  \/ \E a \in ExitBatches : ExitData(a, TRUE)
  \/ held = {} /\ MapVars(Batch("DATA", TRUE, <<ClB("TOFROM")>>), MaxHeld, TRUE)
  \/ \E t \in held : UnmapVars(t, TRUE, TRUE)
  \/ \E cl \in UpdateClauses : Update(Batch("DATA", TRUE, cl), TRUE)

SpecUpdate == Init /\ [][NextUpdate]_vars

\* The kinds that copy to the device, and those that copy from it.
CopyToKinds ==
  {GOMP_MAP(k) : k \in {"TO", "TOFROM", "ALWAYS_TO", "ALWAYS_TOFROM", "FORCE_TO", "FORCE_TOFROM"}}

CopyFromKinds ==
  {GOMP_MAP(k) : k \in {"FROM", "TOFROM", "ALWAYS_FROM", "ALWAYS_TOFROM", "FORCE_FROM",
                        "FORCE_TOFROM"}}

\* The records of m that overlap clause i of a.
Hits(m, a, i) ==
  {k \in m.mem_map : /\ Key(m, k).host_start < a.hostaddrs[i] + a.sizes[i]
                     /\ a.hostaddrs[i] < Key(m, k).host_end}

\* Clause i of a leaves the record that it hits.
Leaves(m, a, i) ==
  /\ a.sizes[i] /= 0
  /\ \E k \in Hits(m, a, i) : \/ Key(m, k).host_start > a.hostaddrs[i]
                              \/ Key(m, k).host_end < a.hostaddrs[i] + a.sizes[i]

\* The copies that the claim gives clause i of a, which hits k.
ClauseCopies(m, a, i, k) ==
  LET dev == m.tgts[k[1]].tgt_start + Key(m, k).tgt_offset
             + a.hostaddrs[i] - Key(m, k).host_start
  IN (IF a.kinds[i] \in CopyToKinds
      THEN <<Ev("host2dev", dev, a.hostaddrs[i], a.sizes[i])>> ELSE << >>)
     \o (IF a.kinds[i] \in CopyFromKinds
         THEN <<Ev("dev2host", a.hostaddrs[i], dev, a.sizes[i])>> ELSE << >>)

\* The copies that the claim gives clauses i.. of a, up to the first clause
\* that leaves its record.
RECURSIVE UpdateCopies(_, _, _)
UpdateCopies(m, a, i) ==
  IF i > a.mapnum \/ Leaves(m, a, i) THEN << >>
  ELSE (IF a.sizes[i] = 0 \/ Hits(m, a, i) = {} THEN << >>
        ELSE ClauseCopies(m, a, i, CHOOSE k \in Hits(m, a, i) : TRUE))
       \o UpdateCopies(m, a, i + 1)

\* C20: gomp_update, on the resolved device, changes no refcount, no
\* async_refcount, no descriptor and no membership of the index; it is fatal
\* iff a clause of size not zero hits a record that does not hold all of it;
\* for each clause before that it calls host2dev iff the kind copies to the
\* device and dev2host iff the kind copies from it, on the clause's range.
C20_UpdateFrameAndCopies ==
  [][call'.op = "gomp_update"
       => LET m0 == resolve_device(M, 0)[1]
          IN /\ mem_map' = m0.mem_map /\ tgts' = m0.tgts /\ blocks' = m0.blocks
             /\ (status' = "fatal") = (\E i \in 1..call'.a.mapnum : Leaves(m0, call'.a, i))
             /\ log' = m0.log \o UpdateCopies(m0, call'.a, 1)
             /\ ~lock']_vars

\* an update of the inside of A, mapped, has copied it to the device and back
C20_Witness ==
  /\ call.op = "gomp_update" /\ status = "running" /\ MappedA
  /\ call.a.hostaddrs = <<A_START + 4>> /\ call.a.kinds = <<GOMP_MAP("TOFROM")>>
  /\ Len(log) = 2 /\ log[1].ev = "host2dev" /\ log[2].ev = "dev2host"
  /\ log[1].b = A_START + 4 /\ log[1].n = 4

----------------------------------------------------------------------------
(* Devices that do not resolve                                             *)

\* The device ids of the calls: host fallback, the default device, device 0,
\* the id past the last device, and another negative id.
DeviceIds == {GOMP_DEVICE_HOST_FALLBACK, GOMP_DEVICE_ICV, 0, num_devices_openmp, -3}

ThreadStates == [place : {0, 2}, team : BOOLEAN]

NextFallback ==
  \/ Register(Image1, TRUE)
  \/ \E d \in DeviceIds, thr \in ThreadStates, pl \in BOOLEAN :
       TargetOn(d, thr, pl, F_START, Batch("TARGET", FALSE, <<ClB("TOFROM")>>), TRUE)
  \/ \E d \in DeviceIds, thr \in ThreadStates, pl \in BOOLEAN :
       Target41On(d, thr, pl, F_START, Batch("TARGET", TRUE, <<ClB("TOFROM")>>), TRUE)
  \/ \E d \in DeviceIds : UpdateOn(d, Batch("DATA", FALSE, <<ClInner("TO")>>), TRUE)
  \/ \E d \in DeviceIds : ~MappedA /\ EnterExitDataOn(d, EnterA, FALSE, TRUE)
  \/ \E d \in DeviceIds : EnterExitDataOn(d, ExitA, TRUE, TRUE)

SpecFallback == Init /\ [][NextFallback]_vars

EntryPoints ==
  {"GOMP_target", "GOMP_target_41", "GOMP_target_update", "GOMP_target_enter_exit_data"}

\* The call of an entry point left the device as it was.
DeviceUntouched ==
  /\ mem_map' = mem_map /\ tgts' = tgts /\ blocks' = blocks
  /\ is_initialized' = is_initialized /\ status' = status

\* What the claim gives a call whose device id is not one of a device.
FallsBack ==
  /\ DeviceUntouched
  /\ call'.op \in {"GOMP_target", "GOMP_target_41"}
       => log' = <<Ev("fallback", 0, 0, 0)>> /\ call'.ret_thr = call'.thr
  /\ call'.op \in {"GOMP_target_update", "GOMP_target_enter_exit_data"} => log' = << >>

\* C21 as stated: a call with a device id that is negative or at least
\* num_devices_openmp runs fn on the host once and restores the thread
\* state (GOMP_target, GOMP_target_41) or does nothing (GOMP_target_update,
\* GOMP_target_enter_exit_data), with no call of the plugin and no change of
\* the index.
C21_BadIdFallsBack ==
  [][(/\ call'.op \in EntryPoints
      /\ (call'.device < 0 \/ call'.device >= num_devices_openmp))
       => FallsBack]_vars

\* C21 for the id that resolve_device tests: GOMP_DEVICE_ICV stands for the
\* default device.
C21_UnresolvedIdFallsBack ==
  [][(/\ call'.op \in EntryPoints
      /\ LET id == IF call'.device = GOMP_DEVICE_ICV THEN default_device_var
                   ELSE call'.device
         IN id < 0 \/ id >= num_devices_openmp)
       => FallsBack]_vars

\* GOMP_target for the id past the last device, with A mapped on device 0,
\* has run fn on the host
C21_Witness ==
  /\ call.op = "GOMP_target" /\ call.device = num_devices_openmp
  /\ log = <<Ev("fallback", 0, 0, 0)>> /\ MappedA /\ is_initialized

----------------------------------------------------------------------------
(* The comparison of keys and the lookup of a point                        *)

\* The keys [s, e) of the first addresses.
Keys == {k \in [host_start : 0..5, host_end : 0..5] : k.host_start <= k.host_end}

NextCompare == \E x, y \in Keys : Compare(x, y)

SpecCompare == Init /\ [][NextCompare]_vars

\* C22: splay_compare of two keys with host_start = host_end returns 0 only
\* if they are at the same address, and otherwise -1 or 1 as the address of
\* the first is below or above that of the second.
C22_PointsCompareByAddress ==
  (/\ call.op = "splay_compare"
   /\ call.x.host_start = call.x.host_end /\ call.y.host_start = call.y.host_end)
    => /\ (call.ret = 0) = (call.x.host_start = call.y.host_start)
       /\ call.x.host_start < call.y.host_start => call.ret = -1
       /\ call.x.host_start > call.y.host_start => call.ret = 1

\* Enter-data of A, of the empty range at the start of B and of the empty
\* range at the end of A, exits of A, and lookups of the points around them.
PointBatches ==
  {Batch("ENTER_DATA", TRUE, <<cl>>) :
     cl \in {ClA("TO"), Clause(B_START, 0, "TO"), Clause(A_START + A_SIZE, 0, "ALLOC")}}

LookupPoints ==
  {A_START - 1, A_START, A_START + 1, A_START + A_SIZE - 1, A_START + A_SIZE,
   A_START + A_SIZE + 1, B_START - 1, B_START, B_START + 1}

NextLookup ==
  \/ \E a \in PointBatches : Unmapped(a.hostaddrs[1], a.hostaddrs[1] + a.sizes[1] + 1)
                             /\ EnterData(a, TRUE)
  \/ \E a \in ExitBatches : ExitData(a, TRUE)
  \/ \E a \in LookupPoints : MapLookup(a, 0)

SpecLookup == Init /\ [][NextLookup]_vars

\* The records that the claim lets a lookup of the point a return: those
\* that contain a, start at a, end at a, or are the point a.
PointRecords(a) ==
  {k \in mem_map : \/ Key(M, k).host_start <= a /\ a < Key(M, k).host_end
                   \/ Key(M, k).host_start = a
                   \/ Key(M, k).host_end = a}

\* C23: gomp_map_lookup of the point a returns a record exactly when the
\* index has a record that contains a, starts at a, ends at a or is the
\* point a, and then returns one of these.
C23_PointLookup ==
  (call.op = "gomp_map_lookup" /\ call.key.host_start = call.key.host_end)
    => /\ (call.ret /= NULLKEY) = (PointRecords(call.key.host_start) /= {})
       /\ call.ret /= NULLKEY => call.ret \in PointRecords(call.key.host_start)

----------------------------------------------------------------------------
(* omp_target_associate_ptr and omp_target_disassociate_ptr               *)

\* The device memory of the user, away from the blocks of the device.
U_START == D_START + 64

\* Associations of A, of the inside of A and of the empty range at the start
\* of A with two offsets, on device 0 and on ids that are not of a device;
\* disassociations of points of A and of F;
\* enter-data and exit-data of A, a region on A with its asynchronous
\* copy-back, and the image.
NextAssociate ==
  \/ \E d \in {0, GOMP_DEVICE_HOST_FALLBACK},
        h \in {<<A_START, A_SIZE>>, <<A_START + 4, 4>>, <<A_START, 0>>}, o \in {0, 4} :
       AssociateOn(d, h[1], U_START, h[2], o, TRUE)
  \/ \E d \in {0, GOMP_DEVICE_ICV, num_devices_openmp},
        ptr \in {A_START, A_START + 4, F_START} :
       DisassociateOn(d, ptr, TRUE)
  \/ ~MappedA /\ EnterData(EnterA, TRUE)
  \/ \E a \in ExitBatches : ExitData(a, TRUE)
  \/ held = {} /\ MapVars(Batch("DATA", TRUE, <<ClA("TOFROM")>>), MaxHeld, TRUE)
  \/ \E t \in held : UnmapVars(t, TRUE, TRUE)
  \/ \E t \in held : CopyFromAsync(t, TRUE)
  \/ Register(Image1, TRUE)

SpecAssociate == Init /\ [][NextAssociate]_vars

\* The records of m that omp_target_associate_ptr made: their descriptor has
\* no device block and their device address is in the memory of the user.
Associations(m) ==
  {k \in m.mem_map : m.tgts[k[1]].tgt_start = 0 /\ Key(m, k).tgt_offset >= U_START}

\* C24: omp_target_disassociate_ptr (ptr, device) returns 0 and removes the
\* record exactly when ptr is the host start of a record that
\* omp_target_associate_ptr made on the device; otherwise, and for an id that
\* is negative or not of a device, it returns EINVAL and changes neither the
\* index nor a refcount.
C24_DisassociateExactly ==
  [][call'.op = "omp_target_disassociate_ptr"
       => LET m0 == IF call'.device < 0 THEN M ELSE resolve_device(M, call'.device)[1]
              own == IF call'.device < 0 \/ call'.device >= num_devices_openmp THEN {}
                     ELSE {k \in Associations(m0) : Key(m0, k).host_start = call'.ptr}
          IN IF own /= {}
             THEN /\ call'.ret = 0
                  /\ \E k \in own : mem_map' = m0.mem_map \ {k}
                  /\ \A k \in mem_map' : Key([tgts |-> tgts'], k) = Key(m0, k)
             ELSE /\ call'.ret = EINVAL
                  /\ mem_map' = m0.mem_map /\ tgts' = m0.tgts]_vars

\* The device address that record k of m gives the host address ptr.
Translate(m, k, ptr) == m.tgts[k[1]].tgt_start + Key(m, k).tgt_offset + ptr - Key(m, k).host_start

\* C25: omp_target_associate_ptr of a range, not empty, that overlaps a
\* record returns EINVAL and leaves the index as it is, unless the record
\* holds the range and gives host_ptr the device address device_ptr +
\* device_offset: then it returns 0 and inserts nothing; on an unmapped range
\* it inserts one record with refcount REFCOUNT_INFINITY and returns 0.
C25_AssociateCollision ==
  [][(call'.op = "omp_target_associate_ptr" /\ call'.device = 0 /\ call'.size > 0)
       => LET m0 == resolve_device(M, 0)[1]
              lo == call'.ptr
              hi == call'.ptr + call'.size
              hit == {k \in m0.mem_map : Key(m0, k).host_start < hi /\ lo < Key(m0, k).host_end}
              same == {k \in hit : /\ Key(m0, k).host_start <= lo /\ hi <= Key(m0, k).host_end
                                   /\ Translate(m0, k, lo)
                                        = call'.device_ptr + call'.device_offset}
          IN IF hit = {}
             THEN /\ call'.ret = 0
                  /\ \E k \in mem_map' :
                       /\ mem_map' = m0.mem_map \cup {k} /\ k \notin m0.mem_map
                       /\ Key([tgts |-> tgts'], k).host_start = lo
                       /\ Key([tgts |-> tgts'], k).host_end = hi
                       /\ Key([tgts |-> tgts'], k).refcount = REFCOUNT_INFINITY
             ELSE /\ mem_map' = m0.mem_map /\ tgts' = m0.tgts
                  /\ (call'.ret = 0) = (same /= {})
                  /\ call'.ret \in {0, EINVAL}]_vars

----------------------------------------------------------------------------
(* gomp_map_pointer                                                        *)

\* A pointer object at P_START whose value is ptr, mapped with bias.
PointerBatch(ptr, bias) ==
  Batch("DATA", TRUE, <<[addr |-> P_START, size |-> bias, kind |-> GOMP_MAP("POINTER"),
                         ptr |-> ptr]>>)

\* The values of the pointer: null, into A, one past the end of A, below A and
\* far from every record.
PointerValues == {0, A_START + 4, A_START + A_SIZE - 4, A_START - 4, H_START}

Biases == {0, 4}

\* A is mapped or not; a zero-length section at B_START puts a degenerate
\* record in the index.
NextPointer ==
  \/ \E ptr \in PointerValues, bias \in Biases : MapVars(PointerBatch(ptr, bias), MaxHeld, TRUE)
  \/ \E t \in held : UnmapVars(t, TRUE, TRUE)
  \/ ~MappedA /\ EnterData(EnterA, TRUE)
  \/ Unmapped(B_START, B_START + 1) /\ ~(\E k \in mem_map : Key(M, k).host_start = B_START)
       /\ EnterData(Batch("ENTER_DATA", TRUE, <<Clause(B_START, 0, "TO")>>), TRUE)
  \/ \E a \in ExitBatches : ExitData(a, TRUE)

SpecPointer == Init /\ [][NextPointer]_vars

\* The records of machine state m that the address x falls inside, or one
\* past the end of.
PointedAt(m, x) ==
  {n \in m.mem_map : Key(m, n).host_start <= x /\ x <= Key(m, n).host_end}

PointerWrites(l) == SelectSeq(l, LAMBDA e : e.ev = "host2dev_ptr")

\* C31: gomp_map_pointer on the host pointer p with bias: if p + bias falls
\* inside, or one past the end of, a mapped record n, the value written to the
\* device is n.tgt.tgt_start + n.tgt_offset + (p + bias - n.host_start) - bias;
\* a null p is written as null; a p that is not null and whose target is not
\* mapped ends in gomp_fatal with the device lock released.
C31_PointerTranslation ==
  [][(/\ call'.op = "gomp_map_vars" /\ call'.a.mapnum = 1
      /\ call'.a.kinds[1] = GOMP_MAP("POINTER")
      /\ Unmapped(P_START, P_START + PTR_SIZE))
     => LET m == resolve_device(M, 0)[1]
            p == call'.a.ptrs[1]
            bias == call'.a.sizes[1]
            hits == PointedAt(m, p + bias)
            w == PointerWrites(log')
        IN IF p = 0
           THEN status' = "running" /\ Len(w) = 1 /\ w[1].b = 0
           ELSE IF hits /= {}
           THEN /\ status' = "running" /\ Len(w) = 1
                /\ \E n \in hits :
                     w[1].b = Wrap(m.tgts[n[1]].tgt_start + Key(m, n).tgt_offset
                                   + (p + bias - Key(m, n).host_start) - bias)
           ELSE status' = "fatal" /\ lock' = FALSE /\ Len(w) = 0]_vars

----------------------------------------------------------------------------
(* GOMP_target_data and GOMP_target_end_data                               *)

\* The step to machine state m of a call that sets icv->target_data to td
\* while the task has the regions rs open.
DataBecomes(m, td, rs, c) ==
  /\ tgts' = m.tgts
  /\ mem_map' = m.mem_map
  /\ lock' = m.lock
  /\ status' = m.status
  /\ blocks' = m.blocks
  /\ log' = m.log
  /\ is_initialized' = m.is_initialized
  /\ register_lock' = m.register_lock
  /\ offload_images' = m.offload_images
  /\ unlocked' = m.unlocked
  /\ held' = {td[j] : j \in 1..Len(td)}
  /\ call' = c
  /\ target_data' = td
  /\ regions' = rs
  /\ UNCHANGED <<pc, lock_owner, register_owner>>

\* The task enters a target data region: the region remembers the descriptor
\* the call pushed, 0 if it pushed none.
TargetData(device, a) ==
  /\ Running /\ RefRoom /\ Len(regions) <= MaxNest
  /\ \E r \in GOMP_target_data(M, target_data, device, a) :
       LET pushed == IF Len(r[2]) > Len(target_data) THEN Head(r[2]) ELSE 0
       IN DataBecomes(r[1], r[2],
                      IF Stopped(r[1]) THEN regions ELSE <<pushed>> \o regions,
                      [op |-> "GOMP_target_data", device |-> device, a |-> a,
                       t |-> pushed])

\* The task leaves its innermost target data region.
TargetEndData ==
  /\ Running /\ regions /= << >>
  /\ LET r == GOMP_target_end_data(M, target_data)
     IN DataBecomes(r[1], r[2], Tail(regions),
                    [op |-> "GOMP_target_end_data",
                     t |-> IF target_data /= << >> THEN Head(target_data) ELSE 0])

DataBatches ==
  {Batch("DATA", FALSE, <<ClA("TOFROM")>>),
   Batch("DATA", TRUE, <<ClInner("TO")>>),
   Batch("DATA", TRUE, <<ClB("FROM")>>),
   Batch("DATA", TRUE, << >>)}

NextData ==
  \/ \E device \in {0, GOMP_DEVICE_HOST_FALLBACK}, a \in DataBatches : TargetData(device, a)
  \/ TargetEndData

SpecData == Init /\ [][NextData]_vars

\* The descriptors that the open regions pushed, the innermost first.
Pushed == SelectSeq(regions, LAMBDA t : t /= 0)

\* C32: through every properly nested sequence of GOMP_target_data and
\* GOMP_target_end_data calls, on the device or falling back to the host,
\* icv->target_data holds exactly the descriptors that the open regions
\* pushed, the innermost first, and each of them is live: none is unmapped
\* before its region ends; GOMP_target_end_data unmaps exactly the descriptor
\* that the region it ends pushed, and nothing if that region pushed none; the
\* stack is empty once the outermost region has ended.
C32_RegionsMatch ==
  [][/\ (status = "running")
          => /\ target_data = Pushed
             /\ \A j \in 1..Len(target_data) : target_data[j] \in DOMAIN tgts
             /\ regions = << >> => target_data = << >>
     /\ (call'.op = "GOMP_target_end_data" /\ status' = "running")
          => /\ call'.t = Head(regions)
             /\ call'.t /= 0 => call'.t \notin DOMAIN tgts'
             /\ DOMAIN tgts' = (DOMAIN tgts) \ {call'.t}
             /\ target_data' = SelectSeq(Tail(regions), LAMBDA t : t /= 0)
             /\ Tail(regions) = << >> => target_data' = << >>]_vars

\* the task has left a region that fell back to the host inside a region
\* mapped on the device, and the outer region's descriptor is still on the stack
C32_Witness ==
  /\ call.op = "GOMP_target_end_data" /\ call.t /= 0
  /\ status = "running"
  /\ Len(regions) = 1 /\ target_data = regions
  /\ Logged(log, "remove") = FALSE
  /\ mem_map /= {}

----------------------------------------------------------------------------
(* gomp_map_vars_existing                                                  *)

ExistingKinds ==
  {"ALLOC", "TO", "TOFROM", "ALWAYS_TOFROM", "FORCE_ALLOC", "FORCE_TO", "FORCE_TOFROM",
   "FORCE_PRESENT", "FORCE_DEVICEPTR"}

\* One clause, of each kind that is looked up by its range, on A, inside A,
\* across the end of A and on the variable of a registered image.
ExistingBatches ==
  {Batch("DATA", TRUE, <<cl>>) :
     cl \in {ClA(kind) : kind \in ExistingKinds}
            \cup {ClInner(kind) : kind \in ExistingKinds}
            \cup {Clause(A_START + 8, PTR_SIZE, kind) : kind \in ExistingKinds}
            \cup {ClPartial(kind) : kind \in {"TO", "FORCE_PRESENT"}}
            \cup {ClV(kind) : kind \in {"TOFROM", "FORCE_PRESENT", "FORCE_TO"}}}

NextExisting ==
  \/ ~MappedA /\ EnterData(EnterA, TRUE)
  \/ Register(Image1, TRUE)
  \/ \E a \in ExistingBatches : MappedA /\ MapVars(a, MaxHeld, TRUE)
  \/ \E t \in held : UnmapVars(t, TRUE, TRUE)

SpecExisting == Init /\ [][NextExisting]_vars

\* The records of machine state m that overlap the range of clause 1 of batch a.
Found(m, a) ==
  {k \in m.mem_map : Overlap(Key(m, k), Node(a.hostaddrs[1], a.hostaddrs[1] + a.sizes[1]))}

\* gomp_map_vars_existing on the found record k has bumped its refcount,
\* unless it is pinned, and has filled slot 1 of the descriptor t.
ExistingDone(m, k, a, t) ==
  /\ status' = "running"
  /\ t /= 0
  /\ tgts'[k[1]].array[k[2]].refcount =
       IF Key(m, k).refcount = REFCOUNT_INFINITY THEN REFCOUNT_INFINITY
       ELSE Key(m, k).refcount + 1
  /\ tgts'[t].list[1].key = k
  /\ tgts'[t].list[1].offset = a.hostaddrs[1] - Key(m, k).host_start
  /\ tgts'[t].list[1].length = a.sizes[1]
  /\ mem_map' = m.mem_map

\* C33 as stated: gomp_map_vars_existing ends in gomp_fatal for every clause
\* whose kind has the FORCE flag, FORCE_PRESENT on data that is present and
\* fully contained included, and for every clause whose range the found record
\* does not contain; otherwise it raises the record's refcount by one unless
\* it is REFCOUNT_INFINITY and fills the slot with offset newn.host_start -
\* oldn.host_start and length newn.host_end - newn.host_start.
C33_ForcePresentFatal ==
  [][(/\ call'.op = "gomp_map_vars" /\ call'.a \in ExistingBatches
      /\ Found(resolve_device(M, 0)[1], call'.a) /= {})
     => LET m == resolve_device(M, 0)[1]
            a == call'.a
            kind == KindType(a.kinds[1], a.short)
        IN \E k \in Found(m, a) :
             IF \/ GOMP_MAP_FLAG_FORCE(kind) \/ kind = GOMP_MAP("FORCE_PRESENT")
                \/ ~Contains(Key(m, k), Node(a.hostaddrs[1], a.hostaddrs[1] + a.sizes[1]))
             THEN status' = "fatal"
             ELSE ExistingDone(m, k, a, call'.t)]_vars

\* C33, amended: gomp_map_vars_existing ends in gomp_fatal for every clause
\* whose kind has the FORCE flag (FORCE_ALLOC, FORCE_TO, FORCE_FROM,
\* FORCE_TOFROM; FORCE_PRESENT does not have it) and for every clause whose
\* range the found record does not contain; otherwise, FORCE_PRESENT on data
\* that is present and fully contained included, it raises the record's
\* refcount by one unless it is REFCOUNT_INFINITY and fills the slot with
\* offset newn.host_start - oldn.host_start and length newn.host_end -
\* newn.host_start.
C33_ForceFlagFatal ==
  [][(/\ call'.op = "gomp_map_vars" /\ call'.a \in ExistingBatches
      /\ Found(resolve_device(M, 0)[1], call'.a) /= {})
     => LET m == resolve_device(M, 0)[1]
            a == call'.a
            kind == KindType(a.kinds[1], a.short)
        IN \E k \in Found(m, a) :
             IF \/ GOMP_MAP_FLAG_FORCE(kind)
                \/ ~Contains(Key(m, k), Node(a.hostaddrs[1], a.hostaddrs[1] + a.sizes[1]))
             THEN status' = "fatal"
             ELSE ExistingDone(m, k, a, call'.t)]_vars

\* a FORCE_PRESENT clause on a part of the mapped A has gone through
\* gomp_map_vars_existing: the record of A has one more reference
C33_Witness ==
  /\ call.op = "gomp_map_vars" /\ status = "running"
  /\ call.a = Batch("DATA", TRUE, <<ClInner("FORCE_PRESENT")>>)
  /\ call.t \in held
  /\ tgts[call.t].list[1].offset = 4 /\ tgts[call.t].list[1].length = 4
  /\ \E k \in mem_map : tgts[call.t].list[1].key = k /\ Key(M, k).refcount = 2

----------------------------------------------------------------------------
(* The slots of a descriptor and the records they point to                 *)

\* Data regions on A and inside A, asynchronous copies, enter data of A and
\* exit data of A with kinds FROM and DELETE, in any order.
NextSlots ==
  \/ \E a \in {Batch("DATA", TRUE, <<ClA("TOFROM")>>), Batch("DATA", TRUE, <<ClInner("TO")>>)} :
       MapVars(a, MaxHeld, TRUE)
  \/ \E t \in held : UnmapVars(t, TRUE, TRUE)
  \/ \E t \in held : CopyFromAsync(t, TRUE)
  \/ ~MappedA /\ EnterData(EnterA, TRUE)
  \/ \E a \in ExitBatches : ExitData(a, TRUE)

SpecSlots == Init /\ [][NextSlots]_vars

\* C34: when gomp_unmap_vars or gomp_copy_from_async starts to walk a
\* descriptor, every slot key that is not null points to a record that is in
\* the index and whose owning descriptor has not been freed.
C34_SlotsPointToRecords ==
  [][call'.op \in {"gomp_unmap_vars", "gomp_copy_from_async"}
     => \A i \in 1..tgts[call'.t].list_count :
          LET k == tgts[call'.t].list[i].key
          IN k /= NULLKEY => (k \in mem_map /\ k[1] \in DOMAIN tgts)]_vars


\* C35: a record whose async_refcount is greater than zero stays in the index
\* and its descriptor stays allocated, whatever gomp_copy_from_async,
\* gomp_unmap_vars or gomp_exit_data does next.
C35_AsyncRecordsStay ==
  [][\A k \in mem_map :
       (k[1] \in DOMAIN tgts /\ tgts[k[1]].array[k[2]].async_refcount > 0)
         => (k \in mem_map' /\ k[1] \in DOMAIN tgts')]_vars


----------------------------------------------------------------------------
(* Threads that map the same host range at once                            *)

\* The data regions the threads open on A.
SameRangeBatches ==
  {Batch("DATA", TRUE, <<ClA(name)>>) : name \in {"TO", "TOFROM"}}

\* gomp_map_vars up to its gomp_malloc of the descriptor, on the initialized
\* device that the caller's resolve_device has returned: no lock is held yet.
MapVarsCall(self, a) ==
  /\ Running /\ pc[self] = Idle
  /\ is_initialized
  /\ LET m == View(self)
         t == NewTgt(m)
         d == [list_count |-> a.mapnum,
               refcount |-> IF a.pragma = "ENTER_DATA" THEN 0 ELSE 1,
               list |-> [i \in 1..a.mapnum |-> EmptySlot],
               array |-> <<>>,
               tgt_start |-> 0, tgt_end |-> 0, to_free |-> 0]
     IN Does(self, AddTgt(m, t, d), [at |-> "map_lock", a |-> a, t |-> t])

\* gomp_mutex_lock (&devicep->lock) that does not wait for the lock
MapVarsLock_nowait(self) ==
  /\ Running /\ pc[self].at = "map_lock"
  /\ Does(self, gomp_mutex_lock(View(self)), [pc[self] EXCEPT !.at = "map_pass1"])

\* gomp_mutex_lock (&devicep->lock) of gomp_map_vars
MapVarsLock(self) ==
  /\ Running /\ pc[self].at = "map_lock"
  /\ lock_owner = 0
  /\ Does(self, gomp_mutex_lock(View(self)), [pc[self] EXCEPT !.at = "map_pass1"])

\* The first pass of gomp_map_vars and the allocation of the device block.
\* The locals of the call go on in pc, without the machine state.
MapVarsPass1(self) ==
  /\ Running /\ pc[self].at = "map_pass1"
  /\ LET a == pc[self].a
         L0 == [m |-> View(self), t |-> pc[self].t, i |-> 1,
                tgt_align |-> IF a.pragma = "TARGET" THEN 4 * PTR_SIZE ELSE PTR_SIZE,
                tgt_size |-> IF a.pragma = "TARGET" THEN a.mapnum * PTR_SIZE ELSE 0,
                not_found_cnt |-> 0, has_firstprivate |-> FALSE,
                hostaddrs |-> a.hostaddrs, arr |-> 0,
                field_tgt_offset |-> 0, field_tgt_clear |-> Not(0), field_tgt_base |-> 0]
     IN \E L1 \in Pass1({L0}, a) :
          LET L2 == Allocate(L1, a)
          IN Does(self, L2.m, [at |-> "map_pass2", a |-> a, L |-> LM(L2, 0)])

\* The second pass of gomp_map_vars, the argument array, gomp_mutex_unlock
\* and the return of the descriptor.
MapVarsPass2(self) ==
  /\ Running /\ pc[self].at = "map_pass2"
  /\ LET a == pc[self].a
         L == LM(pc[self].L, View(self))
         L1 == [L EXCEPT !.i = 1,
                         !.tgt_size = IF a.pragma = "TARGET" THEN a.mapnum * PTR_SIZE ELSE 0]
         Second == IF L.not_found_cnt /= 0 \/ L.has_firstprivate THEN Pass2({L1}, a) ELSE {L1}
     IN \E L2 \in Second :
          LET r == MapReturn(IF a.pragma = "TARGET" THEN ArgArray(L2, 1, a.mapnum) ELSE L2, a)
          IN Does(self, r[1], IF r[2] = 0 THEN Idle ELSE [at |-> "mapped", t |-> r[2]])

\* gomp_unmap_vars is called with the descriptor the thread holds, which has
\* slots.
UnmapVarsCall(self) ==
  /\ Running /\ pc[self].at = "mapped"
  /\ Does(self, View(self), [pc[self] EXCEPT !.at = "unmap_lock"])

\* gomp_mutex_lock (&devicep->lock) of gomp_unmap_vars
UnmapVarsLock(self) ==
  /\ Running /\ pc[self].at = "unmap_lock"
  /\ lock_owner = 0
  /\ Does(self, gomp_mutex_lock(View(self)), [pc[self] EXCEPT !.at = "unmap_body"])

\* The loop of gomp_unmap_vars, the release of the descriptor and
\* gomp_mutex_unlock
UnmapVarsBody(self) ==
  /\ Running /\ pc[self].at = "unmap_body"
  /\ Does(self, gomp_unmap_vars(View(self), pc[self].t, TRUE), Idle)

\* Threads resolve the device and open and close data regions on A, each at
\* its own pace.
NextSameRange ==
  \/ \E self \in Threads : ResolveCall(self, 0)
  \/ \E self \in Threads : Resolve(self)
  \/ \E self \in Threads, a \in SameRangeBatches : MapVarsCall(self, a)
  \/ \E self \in Threads : MapVarsLock(self)
  \/ \E self \in Threads : MapVarsPass1(self)
  \/ \E self \in Threads : MapVarsPass2(self)
  \/ \E self \in Threads : UnmapVarsCall(self)
  \/ \E self \in Threads : UnmapVarsLock(self)
  \/ \E self \in Threads : UnmapVarsBody(self)

SpecSameRange == Init /\ [][NextSameRange]_vars

\* The threads whose gomp_map_vars has returned a descriptor that they have
\* not unmapped yet.
Regions == {t \in Threads : pc[t].at \in {"mapped", "unmap_lock", "unmap_body"}}

\* C36: however the gomp_map_vars and gomp_unmap_vars calls of the threads on
\* A interleave, between the calls the index has one record for A with one
\* device block, the record's refcount being the number of threads that hold
\* a descriptor (2 after two concurrent calls have returned); once the last
\* descriptor is unmapped the index is empty and the block is freed, no call
\* having touched freed memory.
C36_OneRecordForSameRange ==
  /\ status = "running"
  /\ (\A t \in Threads : pc[t].at /= "map_pass2")
       => IF Regions = {}
          THEN mem_map = {} /\ blocks = {}
          ELSE /\ Cardinality(mem_map) = 1 /\ Cardinality(blocks) = 1
               /\ \A k \in mem_map :
                    /\ Key(M, k).host_start = A_START
                    /\ Key(M, k).host_end = A_START + A_SIZE
                    /\ Key(M, k).refcount = Cardinality(Regions)
                    /\ tgts[k[1]].to_free \in blocks

\* two threads hold a descriptor for A: one descriptor owns the record and
\* the block, the other refers to it, and the record has refcount 2
C36_Witness ==
  /\ \E t1, t2 \in Threads :
       /\ t1 /= t2 /\ pc[t1].at = "mapped" /\ pc[t2].at = "mapped"
       /\ pc[t1].t /= pc[t2].t
       /\ tgts[pc[t1].t].to_free = 0 /\ tgts[pc[t2].t].to_free /= 0
  /\ \E k \in mem_map : Key(M, k).refcount = 2
  /\ Cardinality(mem_map) = 1 /\ Cardinality(blocks) = 1



----------------------------------------------------------------------------
(* The locks of the entry points, thread by thread                         *)

\* The calls that take the device lock once, around their whole body.
DeviceCalls ==
  {[op |-> "gomp_map_vars", a |-> Batch("DATA", TRUE, <<ClA("TOFROM")>>)],
   [op |-> "gomp_update", a |-> Batch("DATA", TRUE, <<ClInner("TO")>>)],
   [op |-> "gomp_exit_data", a |-> Batch("ENTER_DATA", TRUE, <<ClA("FROM")>>)],
   [op |-> "omp_target_is_present", ptr |-> A_START]}

\* One of these calls is made for the device that resolve_device has
\* returned, or gomp_unmap_vars for the descriptor that the thread holds, and
\* gets through its gomp_mutex_lock (&devicep->lock).  A is mapped by one
\* thread at a time.
DeviceCallLock(self, c) ==
  /\ Running
  /\ is_initialized
  /\ \/ pc[self] = Idle /\ c \in DeviceCalls
        /\ (c.op = "gomp_map_vars" => \A o \in Threads : pc[o].at /= "mapped")
     \/ pc[self].at = "mapped" /\ c = [op |-> "gomp_unmap_vars", t |-> pc[self].t]
  /\ lock_owner = 0
  /\ Does(self, gomp_mutex_lock(View(self)), [at |-> "call_body", c |-> c])

\* The body of the call, to its gomp_mutex_unlock and its return
DeviceCallBody(self) ==
  /\ Running /\ pc[self].at = "call_body"
  /\ LET c == pc[self].c
         m == View(self)
     IN \E r \in CASE c.op = "gomp_map_vars" -> gomp_map_vars(m, c.a)
                   [] c.op = "gomp_unmap_vars" -> {<<gomp_unmap_vars(m, c.t, TRUE), 0>>}
                   [] c.op = "gomp_update" -> {<<m1, 0>> : m1 \in gomp_update(m, c.a)}
                   [] c.op = "gomp_exit_data" -> {<<m1, 0>> : m1 \in gomp_exit_data(m, c.a)}
                   [] c.op = "omp_target_is_present" ->
                        {<<omp_target_is_present(m, c.ptr, 0)[1], 0>>}
                   [] c.op = "omp_target_memcpy" -> {<<gomp_mutex_unlock(m), 0>>} :
          Does(self, r[1], IF c.op = "gomp_map_vars" /\ r[2] /= 0
                           THEN [at |-> "mapped", t |-> r[2]] ELSE Idle)

\* The device of one side of a copy: none (NULL, the host) or device 0.
Devicep == {<< >>, <<0>>}

\* omp_target_memcpy: the devices whose locks it takes for its copy, in the
\* order it takes them
MemcpyLocks(src_devicep, dst_devicep) ==
  IF src_devicep = << >> /\ dst_devicep = << >> THEN << >>
  ELSE IF src_devicep = << >> THEN dst_devicep
  ELSE IF dst_devicep = << >> THEN src_devicep
  ELSE src_devicep

\* omp_target_memcpy_rect taking the lock of each side that is on a device
RectLocks_both(src_devicep, dst_devicep) == src_devicep \o dst_devicep

\* omp_target_memcpy_rect: the devices whose locks it takes around its
\* worker, in the order it takes them
RectLocks(src_devicep, dst_devicep) ==
  IF src_devicep /= << >> THEN src_devicep
  ELSE IF dst_devicep /= << >> THEN dst_devicep
  ELSE << >>

\* The thread goes on to take the locks of its copy, to the copy once it has
\* them all.
CopyAt(locks) ==
  IF locks = << >> THEN [at |-> "call_body", c |-> [op |-> "omp_target_memcpy"]]
  ELSE [at |-> "copy_lock", locks |-> locks]

\* omp_target_memcpy or omp_target_memcpy_rect is called, each side on the
\* host or on the device that resolve_device has returned (two sides on
\* devices are on the same device: the calls return EINVAL otherwise).
CopyCall(self, rect, src_devicep, dst_devicep) ==
  /\ Running /\ pc[self] = Idle
  /\ is_initialized
  /\ Does(self, View(self),
          CopyAt(IF rect THEN RectLocks(src_devicep, dst_devicep)
                 ELSE MemcpyLocks(src_devicep, dst_devicep)))

\* The next gomp_mutex_lock of the copy
CopyLock(self) ==
  /\ Running /\ pc[self].at = "copy_lock"
  /\ lock_owner = 0
  /\ Does(self, gomp_mutex_lock(View(self)), CopyAt(Tail(pc[self].locks)))

\* Threads resolve the device, register and unregister Image1, open and close
\* data regions on A, update, exit data, and make omp_target_* memory calls,
\* all at once.
NextLocks ==
  \/ \E self \in Threads : ResolveCall(self, 0)
  \/ \E self \in Threads : Resolve(self)
  \/ \E self \in Threads : RegisterCall(self, Image1)
  \/ \E self \in Threads : UnregisterCall(self, Image1)
  \/ \E self \in Threads : Registration(self)
  \/ \E self \in Threads, c \in DeviceCalls \cup {[op |-> "gomp_unmap_vars", t |-> t] : t \in DOMAIN tgts} :
       DeviceCallLock(self, c)
  \/ \E self \in Threads : DeviceCallBody(self)
  \/ \E self \in Threads, rect \in BOOLEAN, src, dst \in Devicep : CopyCall(self, rect, src, dst)
  \/ \E self \in Threads : CopyLock(self)

SpecLocks == Init /\ [][NextLocks]_vars

\* Thread t is between two calls.
Between(t) == pc[t].at \in {"idle", "mapped"}

\* Thread t is at a gomp_mutex_lock of the device lock, of register_lock.
WaitsDevice(t) ==
  pc[t].at \in {"resolve_lock", "register_device", "unregister_device", "copy_lock"}

WaitsRegister(t) == pc[t].at \in {"register_lock", "unregister_lock"}

----------------------------------------------------------------------------
(* gomp_get_target_fn_addr against the unregistration of the image         *)

\* GOMP_target calls gomp_get_target_fn_addr for a function of a registered
\* image on the device that resolve_device has returned, and gets through
\* gomp_mutex_lock (&devicep->lock).
FnAddrLock(self, image, host_fn) ==
  /\ Running /\ pc[self] = Idle
  /\ is_initialized
  /\ \E j \in 1..Len(offload_images) : offload_images[j] = image
  /\ lock_owner = 0
  /\ Does(self, gomp_mutex_lock(View(self)), [at |-> "fn_lookup", host_fn |-> host_fn])

\* splay_tree_lookup, gomp_mutex_unlock and the test of tgt_fn for NULL
FnAddrLookup(self) ==
  /\ Running /\ pc[self].at = "fn_lookup"
  /\ LET m == View(self)
         host_fn == pc[self].host_fn
     IN \E n \in splay_tree_lookup(m, Node(host_fn, Wrap(host_fn + 1))) :
          IF n = NULLKEY
          THEN Does(self, gomp_fatal(gomp_mutex_unlock(m)), Idle)
          ELSE Does(self, gomp_mutex_unlock(m), [at |-> "fn_read", tgt_fn |-> n])

\* return (void *) tgt_fn->tgt_offset: a read of the record, which is a
\* read of freed memory if its descriptor has been freed
FnAddrRead(self) ==
  /\ Running /\ pc[self].at = "fn_read"
  /\ LET m == View(self)
     IN Does(self, IF Dangling(m, pc[self].tgt_fn) THEN UndefinedBehaviour(m) ELSE m, Idle)

\* Threads resolve the device, register and unregister Image1 and look up
\* its function for a launch, all at once.
NextFnAddr ==
  \/ \E self \in Threads : ResolveCall(self, 0)
  \/ \E self \in Threads : Resolve(self)
  \/ \E self \in Threads : RegisterCall(self, Image1)
  \/ \E self \in Threads : UnregisterCall(self, Image1)
  \/ \E self \in Threads : Registration(self)
  \/ \E self \in Threads : FnAddrLock(self, Image1, Image1.funcs[1])
  \/ \E self \in Threads : FnAddrLookup(self)
  \/ \E self \in Threads : FnAddrRead(self)

SpecFnAddr == Init /\ [][NextFnAddr]_vars

\* C38: when gomp_get_target_fn_addr reads tgt_fn->tgt_offset, the record
\* tgt_fn is in the index and its descriptor is allocated.
C38_ReadsIndexedRecord ==
  [][\A t \in Threads :
       (pc[t].at = "fn_read" /\ pc'[t] /= pc[t])
         => (pc[t].tgt_fn \in mem_map /\ ~Dangling(M, pc[t].tgt_fn))]_vars


----------------------------------------------------------------------------
(* gomp_free_memmap                                                        *)

\* The loop of gomp_free_memmap from the machine states S on: the record at
\* the root is any record of the index (which one depends on the shape of
\* the tree).  Reading the root's key.tgt in an array that an earlier
\* iteration has freed is a read of freed memory.
RECURSIVE FreeMemmapLoop(_)
FreeMemmapLoop(S) ==
  IF \A m \in S : Stopped(m) \/ m.mem_map = {} THEN S
  ELSE FreeMemmapLoop(
         UNION {IF Stopped(m) \/ m.mem_map = {} THEN {m}
                ELSE {IF Dangling(m, root) THEN UndefinedBehaviour(m)
                      ELSE Free(splay_tree_remove(m, root), root[1])
                        : root \in m.mem_map}
                  : m \in S})

\* gomp_free_memmap on the index of the device, which the caller has locked
gomp_free_memmap(m) == FreeMemmapLoop({m})

\* The device lock is taken, gomp_free_memmap is called and the lock is
\* released; the callers lose the descriptors that have been freed.
FreeMemmap(traced) ==
  /\ Running
  /\ \E m \in gomp_free_memmap(gomp_mutex_lock(M)) :
       Becomes(IF Stopped(m) THEN m ELSE gomp_mutex_unlock(m), held \cap DOMAIN m.tgts,
               [op |-> "gomp_free_memmap"], traced)

\* Data regions on A and on A and B together, whose descriptor owns two
\* records; enter data and exit data of A; gomp_free_memmap at any time.
NextFree ==
  \/ \E a \in {Batch("DATA", TRUE, <<ClA("TOFROM")>>),
               Batch("DATA", TRUE, <<ClA("TO"), ClB("TO")>>),
               Batch("DATA", TRUE, <<ClB("TOFROM")>>)} : MapVars(a, MaxHeld, TRUE)
  \/ \E t \in held : UnmapVars(t, TRUE, TRUE)
  \/ EnterData(EnterA, TRUE)
  \/ \E a \in ExitBatches : ExitData(a, TRUE)
  \/ FreeMemmap(TRUE)

SpecFree == Init /\ [][NextFree]_vars

\* C40: gomp_free_memmap leaves the index empty, frees every descriptor that
\* owned a record of the index, and reads no record or descriptor that it
\* has freed.
C40_FreeMemmapFreesOnce ==
  [][call'.op = "gomp_free_memmap"
     => /\ status' = "running"
        /\ mem_map' = {}
        /\ \A k \in mem_map : k[1] \notin DOMAIN tgts']_vars


----------------------------------------------------------------------------
(* The device block of gomp_map_vars and what pass 2 places in it          *)

\* A clause with alignment 2^e, in the 16-bit encoding of the kinds.
Aligned(cl, e) == [cl EXCEPT !.kind = @ + 256 * e]

\* Batches that make pass 2 place records and firstprivate copies: two
\* objects whose sizes and alignments leave gaps, a launch with firstprivate
\* copies around a record, a struct with two fields away from its start, a
\* pointer set with its pointer, an object with a section of it, and a launch
\* with the 8-bit kinds.
PlaceBatches ==
  {Batch("DATA", TRUE, <<Clause(B_START, 3, "TO"), Aligned(ClA("TOFROM"), 3)>>),
   Batch("TARGET", TRUE, <<Aligned(Clause(P_START, 4, "FIRSTPRIVATE"), 2),
                           Aligned(ClB("TOFROM"), 4),
                           Aligned(Clause(P_START + 8, 2, "FIRSTPRIVATE"), 1)>>),
   Batch("DATA", TRUE, <<Clause(H_START, 1, "ALLOC"), Aligned(StructS[1], 3),
                         StructS[2], StructS[3]>>),
   Batch("TARGET", TRUE, PsetP),
   Batch("DATA", TRUE, <<ClA("TO"), Aligned(ClInner("TO"), 2), ClB("FROM")>>),
   Batch("TARGET", FALSE, <<[ClB("TOFROM") EXCEPT !.kind = @ + 8 * 2]>>)}

\* Launches and data regions on these batches, with A entered and released
\* beside them.
NextPlace ==
  \/ \E a \in PlaceBatches : MapVars(a, MaxHeld, TRUE)
  \/ \E t \in held, do_copyfrom \in BOOLEAN : UnmapVars(t, do_copyfrom, TRUE)
  \/ ~MappedA /\ EnterData(EnterA, TRUE)
  \/ ExitData(ExitA, TRUE)

SpecPlace == Init /\ [][NextPlace]_vars

\* The clause that made pass 2 create record j of descriptor d (number t):
\* the first clause whose slot points to the record.
Creator(d, t, j) ==
  CHOOSE i \in 1..d.list_count :
    /\ d.list[i].key = <<t, j>>
    /\ \A x \in 1..(i - 1) : d.list[x].key /= <<t, j>>

\* The GOMP_MAP_STRUCT clause that clause i of batch a is a field of, 0 if
\* it is none.
StructOf(a, i) ==
  LET S == {s \in 1..(i - 1) : /\ KindType(a.kinds[s], a.short) = GOMP_MAP("STRUCT")
                               /\ i <= s + a.sizes[s]}
  IN IF S = {} THEN 0 ELSE CHOOSE s \in S : TRUE

\* The firstprivate clauses of batch a.
FirstPrivates(a) ==
  {i \in 1..a.mapnum : /\ KindType(a.kinds[i], a.short) = GOMP_MAP("FIRSTPRIVATE")
                       /\ a.hostaddrs[i] /= 0}

\* What pass 2 has placed in the block of descriptor d (number t) for batch
\* a: the records it created and the firstprivate copies, each with its
\* offset from tgt_start, its length, the alignment its clause asks for and
\* the offset that has to be aligned (for a field of a struct, the offset of
\* the start of the struct).
Placements(a, t, d) ==
  {LET r == d.array[j]
       i == Creator(d, t, j)
       s == StructOf(a, i)
   IN [id |-> <<"record", j>>, off |-> r.tgt_offset, len |-> r.host_end - r.host_start,
       align |-> KindAlign(a.kinds[IF s = 0 THEN i ELSE s], a.short),
       base |-> IF s = 0 THEN r.tgt_offset
                ELSE r.tgt_offset - (r.host_start - a.hostaddrs[s])]
     : j \in 1..Len(d.array)}
  \cup
  {[id |-> <<"firstprivate", i>>, off |-> d.list[i].offset, len |-> a.sizes[i],
    align |-> KindAlign(a.kinds[i], a.short), base |-> d.list[i].offset]
     : i \in FirstPrivates(a)}

\* The block of descriptor d holds the placements P of batch a; l is the
\* plugin calls of the gomp_map_vars call.
BlockHolds(a, d, P, l) ==
  LET size == d.tgt_end - d.tgt_start
      allocs == SelectSeq(l, LAMBDA e : e.ev = "alloc")
  IN /\ \A p \in P :
          /\ 0 <= p.off /\ p.off + p.len <= size
          /\ p.base % p.align = 0
          /\ (d.tgt_start + p.base) % p.align = 0
          /\ a.pragma = "TARGET" => p.off >= a.mapnum * PTR_SIZE
     /\ \A p, q \in P : p.id /= q.id => (p.off + p.len <= q.off \/ q.off + q.len <= p.off)
     /\ Len(allocs) = 1
     /\ LET e == allocs[1]
            tgt_align == e.n - size + 1
        IN /\ e.a = d.to_free
           /\ e.a <= d.tgt_start /\ d.tgt_end <= e.a + e.n
           /\ tgt_align >= PTR_SIZE
           /\ \A p \in P : tgt_align >= p.align
           /\ d.tgt_start % tgt_align = 0

====
